---- MODULE Spec2Model ----
\* API gateway: the raw passthrough routes (app/proxy.py and the routers of
\* app/services) and the GraphQL aggregation resolvers (app/schemas.py), one
\* inbound request at a time between process startup and shutdown (app/main.py).
\*
\* A header value of a response is a sequence of atoms: <<"a=1">> is the value
\* "a=1" and <<"a=1", "b=2">> is the comma-joined text "a=1, b=2".
\* A URL and an error message are sequences of parts, as the f-strings of the
\* source build them.
\*
\* The base URLs are resolved configuration values: app/config.py declares the
\* order, payment, partner and offer URLs; the notification, user and review
\* URLs are the ones of the routers of app/services; the auth URL has no
\* declaration in the sources at hand and is taken from the specification.
EXTENDS Integers, Sequences, FiniteSets, TLC

VARIABLES
    http_client,   \* app.state.http_client: "none", "open" or "closed"
    jar,           \* app.state.http_client.cookies: the cookies the client persists
    pc,            \* position of the inbound request being served
    req,           \* the inbound request
    calls,         \* the backend calls issued for it, in order
    reply,         \* what the backend answered to the last call
    result,        \* what forward_request / the resolver returned or raised
    answer,        \* the HTTP answer of a passthrough route
    sink           \* info.context["response"].headers of a GraphQL request

vars == <<http_client, jar, pc, req, calls, reply, result, answer, sink>>

\* ------------------------------------------------------------------ bounds
MaxHeaders == 3        \* inbound headers of a passthrough request
MaxRespHeaders == 2    \* headers of a backend response
MaxSetFields == 2      \* fields given in an update input

None == [kind |-> "none"]

SeqsUpTo(S, n) == UNION {[1..k -> S] : k \in 0..n}

\* ------------------------------------------------------------- header names
\* bytes.lower() / str.lower() on the header names of the model
lower(k) ==
    CASE k = "Host" -> "host"
      [] k = "Connection" -> "connection"
      [] k = "Referer" -> "referer"
      [] k = "X-Tenant-ID" -> "x-tenant-id"
      [] k = "Set-Cookie" -> "set-cookie"
      [] k = "Content-Type" -> "content-type"
      [] OTHER -> k

\* ------------------------------------------------------ inputs (bounded sets)
HeaderPool ==
    { <<"Host", "gw">>, <<"content-length", "12">>, <<"Connection", "close">>,
      <<"origin", "web">>, <<"Referer", "page">>, <<"cookie", "a">>, <<"cookie", "b">> }

Prefixes ==
    {"/users", "/partners", "/offers", "/orders", "/payments", "/notifications", "/reviews"}

Methods == {"GET", "POST", "PUT", "PATCH", "DELETE"}

\* inbound requests of the passthrough routes: every header list up to
\* MaxHeaders on one request line, and every request line with two header lists
ProxyRequests ==
    { [prefix |-> "/orders", method |-> "GET", path |-> "orders/42",
       query_params |-> <<>>, body |-> "", headers |-> h] :
        h \in SeqsUpTo(HeaderPool, MaxHeaders) }
    \cup
    { [prefix |-> x, method |-> m, path |-> p, query_params |-> q, body |-> b,
       headers |-> h] :
        x \in Prefixes, m \in Methods, p \in {"orders/42"},
        q \in {<<>>, << <<"page", "2">> >>}, b \in {"", "payload"},
        h \in {<<>>, << <<"Host", "gw">>, <<"X-Tenant-ID", "t1">> >>} }

Statuses == {200, 201, 204, 401, 404, 500}

\* a response body: JSON of the record of the endpoint (a list of one such
\* record on a list endpoint), text that is not JSON, and JSON of the record
\* with a further key or without one of its keys
Bodies == {"ok_json", "bad_json", "extra_json", "lacks_id", "lacks_active"}

RespHeaderPool ==
    { <<"Set-Cookie", <<"a=1">> >>, <<"Set-Cookie", <<"b=2">> >>,
      <<"Content-Type", <<"json">> >> }

\* backend responses: every status with a complete body and with one that is
\* not JSON, every other body on a 200 and on a 201, and every header list up
\* to MaxRespHeaders on a 200 and on a 401
Responses ==
    { [kind |-> "response", status_code |-> s, content |-> b, headers |-> <<>>] :
        s \in Statuses, b \in {"ok_json", "bad_json"} }
    \cup
    { [kind |-> "response", status_code |-> s, content |-> b, headers |-> <<>>] :
        s \in {200, 201}, b \in Bodies }
    \cup
    { [kind |-> "response", status_code |-> s, content |-> "ok_json", headers |-> h] :
        s \in {200, 401}, h \in SeqsUpTo(RespHeaderPool, MaxRespHeaders) }

\* httpx transport failures: connection refused / DNS, and a timeout
TransportErrors == {"ConnectError", "ReadTimeout"}

\* ---------------------------------------------------------------- config.py
settings ==
    [ ORDER_SERVICE_URL |-> "http://order-service:8000",
      PAYMENT_SERVICE_URL |-> "http://payment-service:8000",
      PARTNER_SERVICE_URL |-> "http://partner-service:8000",
      OFFER_SERVICE_URL |-> "http://offer-service:8000",
      REQUEST_TIMEOUT |-> 10 ]

\* ------------------------------------------------------------ services/*.py
USERS_SERVICE_URL == "http://user-service:8000"
PARTNERS_SERVICE_URL == "http://partner-service:8000"
OFFER_SERVICE_URL == "http://offer-service:8000"
ORDER_SERVICE_URL == "http://order-service:8000"
PAYMENT_SERVICE_URL == "http://payment-service:8000"
NOTIFICATION_SERVICE_URL == "http://notification-service:8000"
REVIEW_SERVICE_URL == "http://review-service:8000"

\* ---------------------------------------------------------------- proxy.py
excluded == {"host", "content-length", "connection", "origin", "referer"}

\* mutant: the names are compared without lower()
clean_headers_nolower(headers) ==
    SelectSeq(headers, LAMBDA h : h[1] \notin excluded)

\* mutant: the kept headers go through a dict, the last value of a name wins
clean_headers_dict(headers) ==
    LET kept == SelectSeq(headers, LAMBDA h : lower(h[1]) \notin excluded)
        last(i) == \A j \in DOMAIN kept : j > i => lower(kept[j][1]) # lower(kept[i][1])
        idx == {i \in DOMAIN kept : last(i)}
        RECURSIVE pick(_)
        pick(i) == IF i > Len(kept) THEN <<>>
                   ELSE (IF i \in idx THEN <<kept[i]>> ELSE <<>>) \o pick(i + 1)
    IN  pick(1)

clean_headers(headers) ==
    SelectSeq(headers, LAMBDA h : lower(h[1]) \notin excluded)

\* mutant: the call is always a GET without the inbound body
forward_call_get(request, base_url, path) ==
    [ client |-> "fresh",
      method |-> "GET",
      url |-> <<base_url, "/", path>>,
      params |-> request.query_params,
      body |-> [kind |-> "content", v |-> ""],
      headers |-> clean_headers(request.headers),
      cookies |-> <<>>,
      timeout |-> <<>>,
      follow_redirects |-> FALSE ]

\* the call `client.request(...)` of forward_request
forward_call(request, base_url, path) ==
    [ client |-> "fresh",
      method |-> request.method,
      url |-> <<base_url, "/", path>>,
      params |-> request.query_params,
      body |-> [kind |-> "content", v |-> request.body],
      headers |-> clean_headers(request.headers),
      cookies |-> <<>>,
      timeout |-> <<>>,
      follow_redirects |-> FALSE ]

RECURSIVE header_keys(_)
\* httpx.Headers.keys(): the lower-cased names, each once, in order of first use
header_keys(hs) ==
    IF hs = <<>> THEN <<>>
    ELSE LET k == lower(Head(hs)[1])
         IN  <<k>> \o SelectSeq(header_keys(Tail(hs)), LAMBDA x : x # k)

RECURSIVE header_getitem(_, _)
\* httpx.Headers.__getitem__: the values under one name, joined with ", "
header_getitem(hs, k) ==
    IF hs = <<>> THEN <<>>
    ELSE (IF lower(Head(hs)[1]) = k THEN Head(hs)[2] ELSE <<>>)
         \o header_getitem(Tail(hs), k)

\* dict(resp.headers)
dict_headers(hs) ==
    LET ks == header_keys(hs)
    IN  [i \in DOMAIN ks |-> <<ks[i], header_getitem(hs, ks[i])>>]

\* the Response that forward_request builds from the backend response
proxy_response(resp) ==
    [ kind |-> "response",
      content |-> resp.content,
      status_code |-> resp.status_code,
      headers |-> dict_headers(resp.headers) ]

\* forward_request up to its await of the backend call
forward_request(request, base_url, path) ==
    /\ req' = [kind |-> "proxy", inbound |-> request, base_url |-> base_url, path |-> path]
    /\ calls' = Append(calls, forward_call(request, base_url, path))
    /\ pc' = "awaiting"
    /\ UNCHANGED <<http_client, jar, reply, result, answer, sink>>

\* forward_request after the backend answered: the response is relayed
forward_request_return ==
    /\ pc = "replied" /\ req.kind = "proxy" /\ reply.kind = "response"
    /\ result' = proxy_response(reply)
    /\ answer' = proxy_response(reply)
    /\ pc' = "done"
    /\ UNCHANGED <<http_client, jar, req, calls, reply, sink>>

\* mutant: a failed call is issued once more before the failure is surfaced
forward_request_raise_retry ==
    /\ pc = "replied" /\ req.kind = "proxy" /\ reply.kind = "transport"
    /\ IF Len(calls) < 2
       THEN /\ calls' = Append(calls, calls[1])
            /\ pc' = "awaiting"
            /\ UNCHANGED <<result, answer>>
       ELSE /\ result' = [kind |-> "raise", exc |-> reply.exc]
            /\ answer' = [kind |-> "response", content |-> "Internal Server Error",
                          status_code |-> 500, headers |-> <<>>]
            /\ pc' = "done"
            /\ UNCHANGED calls
    /\ UNCHANGED <<http_client, jar, req, reply, sink>>

\* forward_request when the call raised: neither it nor the route handler
\* catches, and the ASGI server answers the unhandled exception with a 500
forward_request_raise ==
    /\ pc = "replied" /\ req.kind = "proxy" /\ reply.kind = "transport"
    /\ result' = [kind |-> "raise", exc |-> reply.exc]
    /\ answer' = [kind |-> "response", content |-> "Internal Server Error",
                  status_code |-> 500, headers |-> <<>>]
    /\ pc' = "done"
    /\ UNCHANGED <<http_client, jar, req, calls, reply, sink>>

Serving == http_client = "open" /\ pc = "idle"

Routed(prefix) == {r \in ProxyRequests : r.prefix = prefix}

users_proxy ==
    Serving /\ \E request \in Routed("/users") :
        forward_request(request, USERS_SERVICE_URL, request.path)

partners_proxy ==
    Serving /\ \E request \in Routed("/partners") :
        forward_request(request, PARTNERS_SERVICE_URL, request.path)

offer_proxy ==
    Serving /\ \E request \in Routed("/offers") :
        forward_request(request, OFFER_SERVICE_URL, request.path)

order_proxy ==
    Serving /\ \E request \in Routed("/orders") :
        forward_request(request, ORDER_SERVICE_URL, request.path)

payment_proxy ==
    Serving /\ \E request \in Routed("/payments") :
        forward_request(request, PAYMENT_SERVICE_URL, request.path)

notification_proxy ==
    Serving /\ \E request \in Routed("/notifications") :
        forward_request(request, NOTIFICATION_SERVICE_URL, request.path)

review_proxy ==
    Serving /\ \E request \in Routed("/reviews") :
        forward_request(request, REVIEW_SERVICE_URL, request.path)

\* --------------------------------------------------- schemas.py: shared parts
\* inbound GraphQL requests: the tenant header absent, present, present in
\* lower case; no cookie, one cookie, two cookies
GraphRequests ==
    { [headers |-> t \o c] :
        t \in {<<>>, << <<"X-Tenant-ID", "t1">> >>, << <<"x-tenant-id", "t2">> >>},
        c \in {<<>>, << <<"cookie", "sid=1">> >>, << <<"cookie", "sid=1; theme=dark">> >>} }

Ids == {"p1", "p2"}

\* the one inbound request on which the large input sets are enumerated
PlainRequest == [headers |-> <<>>]

\* request.headers.get(key, default): the first value under the name, whatever
\* its case
headers_get(headers, key, default) ==
    LET hit == {i \in DOMAIN headers : lower(headers[i][1]) = lower(key)}
    IN  IF hit = {} THEN default
        ELSE headers[CHOOSE i \in hit : \A j \in hit : i <= j][2]

\* tenant_id = request.headers.get("X-Tenant-ID", "public")
tenant_id(request) == headers_get(request.headers, "X-Tenant-ID", "public")

\* request.cookies: the pairs of the Cookie header
request_cookies(request) ==
    LET v == headers_get(request.headers, "cookie", "")
    IN  CASE v = "sid=1" -> << <<"sid", "1">> >>
          [] v = "sid=1; theme=dark" -> << <<"sid", "1">>, <<"theme", "dark">> >>
          [] OTHER -> <<>>

\* the keyword arguments of an httpx call, with httpx's defaults for those left out
Call(client, method, url, kw) ==
    LET base == [ client |-> client, method |-> method, url |-> url,
                  params |-> <<>>, body |-> [kind |-> "none"], headers |-> <<>>,
                  cookies |-> <<>>, timeout |-> <<>>, follow_redirects |-> FALSE ]
    IN  [k \in DOMAIN base |-> IF k \in DOMAIN kw THEN kw[k] ELSE base[k]]

XTenant(request) == << <<"X-Tenant-ID", tenant_id(request)>> >>

\* parts of an f-string
Lit(s) == [t |-> "lit", v |-> s]
Arg(a) == [t |-> "arg", v |-> a]
StatusCode(resp) == [t |-> "status", v |-> resp.status_code]
Text(resp) == [t |-> "text", v |-> resp.content]
ExcText(e) == [t |-> "exc", v |-> e]

Exception(msg) == [type |-> "Exception", msg |-> msg]

Return(v) == [kind |-> "return", value |-> v, set_cookie |-> <<>>]
Raise(e) == [kind |-> "raise", exc |-> e, set_cookie |-> <<>>]

PyNone == [t |-> "None"]
EmptyList == [t |-> "list", items |-> "none"]

\* the exception that `await client.<method>(...)` raised
TransportError(resp) == Raise([type |-> resp.exc, msg |-> <<ExcText(resp.exc)>>])

\* response.json(): the parsed body, or a JSONDecodeError
json_ok(resp) == resp.content # "bad_json"

JSONDecodeError == Raise([type |-> "JSONDecodeError", msg |-> <<ExcText("JSONDecodeError")>>])

\* try: ... except Exception as e: raise Exception(f"{prefix}{str(e)}")
TryExcept(outcome, prefix) ==
    IF outcome.kind = "raise" THEN Raise(Exception(prefix \o outcome.exc.msg)) ELSE outcome

\* auth_response.headers.get_list("set-cookie")
get_list(headers, key) ==
    LET hit == SelectSeq(headers, LAMBDA h : lower(h[1]) = lower(key))
    IN  [i \in DOMAIN hit |-> hit[i][2]]

\* name and value of a cookie, from the text of a Set-Cookie header
cookie_pair(v) ==
    CASE v = <<"a=1">> -> <<"a", "1">>
      [] v = <<"b=2">> -> <<"b", "2">>
      [] OTHER -> <<"", "">>

\* httpx.AsyncClient keeps the cookies of every response it receives, whatever
\* the status: a cookie of a new name is added, one of a known name replaced
extract_cookies(cookies, resp) ==
    LET set(cs, c) ==
            IF \E i \in DOMAIN cs : cs[i][1] = c[1]
            THEN [i \in DOMAIN cs |-> IF cs[i][1] = c[1] THEN c ELSE cs[i]]
            ELSE Append(cs, c)
        RECURSIVE store(_, _)
        store(cs, vs) == IF vs = <<>> THEN cs
                         ELSE store(set(cs, cookie_pair(Head(vs))), Tail(vs))
    IN  store(cookies, get_list(resp.headers, "set-cookie"))

\* the cookies a call of the shared client carries: the persisted ones, then
\* those of its cookies= argument
merge_cookies(call) == jar \o call.cookies

\* the request a client sends for a call: a fresh client has no cookie of its own
build_request(call) ==
    IF call.client = "shared" THEN [call EXCEPT !.cookies = merge_cookies(call)] ELSE call

\* main.py: the context of one GraphQL request: the inbound request, a fresh
\* response whose headers the resolvers may append to, and the shared client
get_context(request) ==
    [request |-> request, response |-> [headers |-> <<>>], http_client |-> http_client]

\* a resolver up to its await of the backend call
Issue(field, request, args, call) ==
    /\ req' = [kind |-> "graph", field |-> field,
               request |-> get_context(request).request, args |-> args]
    /\ calls' = Append(calls, build_request(call))
    /\ pc' = "awaiting"
    /\ sink' = get_context(request).response.headers
    /\ UNCHANGED <<http_client, jar, reply, result, answer>>

\* Python values
Str(v) == [py |-> "str", v |-> v]
Float(v) == [py |-> "float", v |-> v]
Bool(v) == [py |-> "bool", v |-> v]
DateTime(v) == [py |-> "datetime", v |-> v]
NoneValue == [py |-> "NoneType", v |-> "None"]

\* ------------------------------------------------ schemas.py: record types
\* a strawberry type: its fields and those that have a default value
OrderItemType ==
    [ name |-> "OrderItemType", fields |-> {"id", "offer_id", "quantity", "order_id"},
      defaults |-> <<>> ]

OrderType ==
    [ name |-> "OrderType",
      fields |-> {"id", "user_id", "order_status", "payment_status", "payment_id",
                  "created_at", "updated_at", "items", "partner_id"},
      defaults |-> [partner_id |-> NoneValue, payment_id |-> NoneValue] ]

PaymentType ==
    [ name |-> "PaymentType",
      fields |-> {"id", "order_id", "user_id", "amount", "currency", "payment_method",
                  "payment_status", "provider", "transaction_id", "created_at",
                  "updated_at"},
      defaults |-> <<>> ]

PartnerType ==
    [ name |-> "PartnerType",
      fields |-> {"id", "name", "address", "city", "active", "tenant_id", "latitude",
                  "longitude"},
      defaults |-> <<>> ]

OfferType ==
    [ name |-> "OfferType",
      fields |-> {"id", "partner_id", "title", "description", "price_original",
                  "price_discounted", "expiry_date", "status", "tenant_id"},
      defaults |-> [status |-> Str("ACTIVE")] ]

NotificationType ==
    [ name |-> "NotificationType",
      fields |-> {"id", "user_id", "type", "title", "message", "meta", "is_read"},
      defaults |-> [type |-> Str("INFO"), meta |-> NoneValue, is_read |-> Bool("False")] ]

UserType ==
    [ name |-> "UserType",
      fields |-> {"id", "username", "email", "name", "surname", "address", "longitude",
                  "latitude", "created_at", "updated_at", "partner_id"},
      defaults |-> <<>> ]

UserMe ==
    [ name |-> "UserMe", fields |-> {"sub", "email", "preferred_username", "roles"},
      defaults |-> [email |-> NoneValue, preferred_username |-> NoneValue,
                    roles |-> [py |-> "list", items |-> <<>>]] ]

ReviewOutType ==
    [ name |-> "ReviewOutType",
      fields |-> {"id", "order_id", "user_id", "partner_id", "rating", "comment",
                  "created_at", "updated_at"},
      defaults |-> [comment |-> NoneValue] ]

PartnerRatingOutType ==
    [ name |-> "PartnerRatingOutType", fields |-> {"partner_id", "avg_rating", "count"},
      defaults |-> <<>> ]

\* exceptions of the mapping code
KeyError(key) == Raise([type |-> "KeyError", msg |-> <<ExcText(key)>>])
ValueError == Raise([type |-> "ValueError", msg |-> <<ExcText("Invalid isoformat string")>>])
AttributeError(what) == Raise([type |-> "AttributeError", msg |-> <<ExcText(what)>>])
ArgumentError(what) == Raise([type |-> "TypeError", msg |-> <<ExcText(what)>>])

IsRaise(x) == "kind" \in DOMAIN x

\* Type(**kwargs): the keyword-only constructor of a strawberry type; an
\* unknown keyword and a missing field without default are TypeErrors, and no
\* value is validated against the annotation of its field
Construct(type, kwargs) ==
    IF IsRaise(kwargs) THEN kwargs
    ELSE IF ~(DOMAIN kwargs \subseteq type.fields)
    THEN ArgumentError("unexpected keyword argument")
    ELSE IF ~((type.fields \ DOMAIN type.defaults) \subseteq DOMAIN kwargs)
    THEN ArgumentError("missing required keyword-only argument")
    ELSE Return([t |-> "object", type |-> type.name,
                 fields |-> [f \in type.fields |->
                               IF f \in DOMAIN kwargs THEN kwargs[f] ELSE type.defaults[f]]])

\* -------------------------------------------------- schemas.py: time fields
\* s.replace("Z", "+00:00") on the texts of the model
replace_Z(s) ==
    CASE s = "2024-01-01T00:00:00Z" -> "2024-01-01T00:00:00+00:00"
      [] s = "2024-06-30T23:30:00Z" -> "2024-06-30T23:30:00+00:00"
      [] OTHER -> s

\* the texts datetime.fromisoformat parses
IsIsoFormat(s) ==
    s \in {"2024-01-01T00:00:00+00:00", "2024-06-30T23:30:00+00:00",
           "2024-01-01T01:00:00+01:00", "2024-01-01T00:00:00"}

\* datetime.fromisoformat(s) of such a text: the datetime with the date, the
\* time and the offset the text writes
fromisoformat(s) ==
    CASE s = "2024-01-01T00:00:00+00:00" -> DateTime("2024-01-01 00:00:00 +00:00")
      [] s = "2024-06-30T23:30:00+00:00" -> DateTime("2024-06-30 23:30:00 +00:00")
      [] s = "2024-01-01T01:00:00+01:00" -> DateTime("2024-01-01 01:00:00 +01:00")
      [] s = "2024-01-01T00:00:00" -> DateTime("2024-01-01 00:00:00 naive")

\* dict.get(key, default)
get(d, key, default) == IF key \in DOMAIN d THEN d[key] ELSE default

\* d[key] = value
setitem(d, key, value) ==
    [k \in DOMAIN d \cup {key} |-> IF k = key THEN value ELSE d[k]]

\* d[key] = datetime.fromisoformat(d[key].replace("Z", "+00:00"))
parse_field(d, key) ==
    IF key \notin DOMAIN d THEN KeyError(key)
    ELSE IF d[key].py = "str"
    THEN (IF IsIsoFormat(replace_Z(d[key].v))
          THEN setitem(d, key, fromisoformat(replace_Z(d[key].v)))
          ELSE ValueError)
    ELSE IF d[key].py = "datetime"
    THEN ArgumentError("datetime.replace() takes keyword arguments")
    ELSE AttributeError("object has no attribute 'replace'")

\* if isinstance(d.get(key), str): d[key] = datetime.fromisoformat(...)
parse_if_str(d, key) ==
    IF IsRaise(d) THEN d
    ELSE IF get(d, key, NoneValue).py = "str" THEN parse_field(d, key)
    ELSE d

\* if not isinstance(d.get(key), str): d[key] = datetime.fromisoformat(...)
parse_if_not_str(d, key) ==
    IF IsRaise(d) THEN d
    ELSE IF get(d, key, NoneValue).py # "str" THEN parse_field(d, key)
    ELSE d

\* Type(f=data["f"], g=data.get("g", default), ...): the fields read with
\* data[...] must be present, the others take the default of the mapper
Build(type, data, subscripted, fallbacks) ==
    IF IsRaise(data) THEN data
    ELSE IF \E f \in subscripted : f \notin DOMAIN data
    THEN KeyError(CHOOSE f \in subscripted : f \notin DOMAIN data)
    ELSE Construct(type, [f \in subscripted \cup DOMAIN fallbacks |->
                            IF f \in subscripted THEN data[f]
                            ELSE get(data, f, fallbacks[f])])

\* ----------------------------------------------------- schemas.py: mappers
\* Decimal(str(x)): the decimal the text of x writes
Decimal(x) == [py |-> "Decimal", v |-> x.v]

\* if "amount" in p: p["amount"] = Decimal(str(p["amount"]))
to_decimal(d, key) ==
    IF IsRaise(d) THEN d
    ELSE IF key \in DOMAIN d THEN setitem(d, key, Decimal(d[key]))
    ELSE d

map_payment_data(p) ==
    Construct(PaymentType,
              to_decimal(parse_if_str(parse_if_str(p, "created_at"), "updated_at"),
                         "amount"))

\* the list of the constructed items, or the first exception of a constructor
listed(built) ==
    IF \E i \in DOMAIN built : built[i].kind = "raise"
    THEN built[CHOOSE i \in DOMAIN built : built[i].kind = "raise"]
    ELSE [py |-> "list", items |-> [i \in DOMAIN built |-> built[i].value]]

\* [OrderItemType(**item) for item in o["items"]]
order_items(items) ==
    listed([i \in DOMAIN items |-> Construct(OrderItemType, items[i])])

\* o["items"] = items
set_items(o, items) == IF IsRaise(items) THEN items ELSE setitem(o, "items", items)

\* if "items" in o: o["items"] = [OrderItemType(**item) for item in o["items"]]
with_items(o) ==
    IF IsRaise(o) THEN o
    ELSE IF "items" \in DOMAIN o THEN set_items(o, order_items(o["items"].items))
    ELSE o

map_order_data(o) ==
    Construct(OrderType, with_items(parse_if_str(o, "created_at")))

map_partner_data(data) ==
    Build(PartnerType, data, {"id", "name", "latitude", "longitude"},
          [address |-> NoneValue, city |-> NoneValue, active |-> Bool("True"),
           tenant_id |-> NoneValue])

map_notification_data(data) ==
    Build(NotificationType, data, {"id", "user_id", "title", "message"},
          [type |-> Str("INFO"), meta |-> NoneValue, is_read |-> Bool("False")])

map_review_data(data) ==
    Build(ReviewOutType,
          parse_if_str(parse_if_str(data, "created_at"), "updated_at"),
          {"id", "order_id", "user_id", "partner_id", "rating", "created_at", "updated_at"},
          [comment |-> NoneValue])

map_user_data(data) ==
    Build(UserType,
          parse_if_str(parse_if_str(data, "created_at"), "updated_at"),
          {"id", "username", "email", "created_at", "updated_at"},
          [name |-> NoneValue, surname |-> NoneValue, address |-> NoneValue,
           longitude |-> NoneValue, latitude |-> NoneValue, partner_id |-> NoneValue])

map_offer_data(data) ==
    Build(OfferType,
          parse_if_not_str(data, "expiry_date"),
          {"id", "partner_id", "title", "price_original", "price_discounted",
           "expiry_date"},
          [description |-> NoneValue, status |-> Str("ACTIVE"), tenant_id |-> NoneValue])

\* ------------------------------------------- schemas.py: response.json()
Integer(v) == [py |-> "int", v |-> v]

\* a value of the JSON type a backend writes for a field
sample(f) ==
    CASE f \in {"id", "order_id", "offer_id", "quantity", "payment_id", "rating", "count"}
            -> Integer("1")
      [] f \in {"amount", "price_original", "price_discounted", "latitude", "longitude",
                "avg_rating"} -> Float("19.99")
      [] f \in {"active", "is_read"} -> Bool("False")
      [] f = "items" -> [py |-> "list", items |-> << [g \in OrderItemType.fields |-> Integer("1")] >>]
      [] f = "roles" -> [py |-> "list", items |-> <<>>]
      [] f = "meta" -> NoneValue
      [] f \in {"created_at", "updated_at", "expiry_date"} -> Str("2024-01-01T00:00:00Z")
      [] OTHER -> Str("x")

\* the payload of a record that has every field of its type
Payload(type) == [f \in type.fields |-> sample(f)]

\* d without the key
without(d, key) == [k \in DOMAIN d \ {key} |-> d[k]]

\* the record type a mapper returns
RecordOf(mapper) ==
    CASE mapper = "map_payment_data" -> PaymentType
      [] mapper = "map_order_data" -> OrderType
      [] mapper = "map_partner_data" -> PartnerType
      [] mapper = "map_notification_data" -> NotificationType
      [] mapper = "map_review_data" -> ReviewOutType
      [] mapper = "map_user_data" -> UserType
      [] mapper = "map_offer_data" -> OfferType

\* the record a JSON body writes, for the record type of the endpoint: every
\* field of the type; those and an "amount" the gateway type may not declare;
\* all but "id"; all but "active"
json(resp, type) ==
    CASE resp.content = "ok_json" -> Payload(type)
      [] resp.content = "extra_json" -> setitem(Payload(type), "amount", Float("19.99"))
      [] resp.content = "lacks_id" -> without(Payload(type), "id")
      [] resp.content = "lacks_active" -> without(Payload(type), "active")

\* [mapper(x) for x in response.json()], on the list of one record
listing(item) ==
    IF item.kind = "raise" THEN item ELSE Return([t |-> "list", items |-> <<item.value>>])

MappedList(item, resp) ==
    IF ~json_ok(resp) THEN JSONDecodeError ELSE listing(item)

\* mapper(response.json()) / Type(**response.json())
MappedObject(object, resp) ==
    IF ~json_ok(resp) THEN JSONDecodeError ELSE object

\* ------------------------------------------------------- schemas.py: Query
get_orders_call(request) ==
    Call("fresh", "GET", <<settings.ORDER_SERVICE_URL, "/orders">>,
         [headers |-> XTenant(request), timeout |-> <<settings.REQUEST_TIMEOUT>>,
          follow_redirects |-> TRUE])

get_orders ==
    Serving /\ \E request \in GraphRequests :
        Issue("get_orders", request, <<>>, get_orders_call(request))

get_orders_return(q, resp) ==
    TryExcept(
        IF resp.kind = "transport" THEN TransportError(resp)
        ELSE IF resp.status_code # 200 THEN Return(EmptyList)
        ELSE MappedList(map_order_data(json(resp, OrderType)), resp),
        <<Lit("Order service error: ")>>)

get_payments_call(request) ==
    Call("fresh", "GET", <<settings.PAYMENT_SERVICE_URL, "/payments">>,
         [headers |-> XTenant(request), timeout |-> <<settings.REQUEST_TIMEOUT>>,
          follow_redirects |-> TRUE])

get_payments ==
    Serving /\ \E request \in GraphRequests :
        Issue("get_payments", request, <<>>, get_payments_call(request))

get_payments_return(q, resp) ==
    TryExcept(
        IF resp.kind = "transport" THEN TransportError(resp)
        ELSE IF resp.status_code # 200 THEN Return(EmptyList)
        ELSE MappedList(map_payment_data(json(resp, PaymentType)), resp),
        <<Lit("Payment service error: ")>>)

all_partners_call(request) ==
    Call("fresh", "GET", <<settings.PARTNER_SERVICE_URL, "/partners">>,
         [headers |-> XTenant(request), timeout |-> <<settings.REQUEST_TIMEOUT>>,
          follow_redirects |-> TRUE])

all_partners ==
    Serving /\ \E request \in GraphRequests :
        Issue("all_partners", request, <<>>, all_partners_call(request))

all_partners_return(q, resp) ==
    TryExcept(
        IF resp.kind = "transport" THEN TransportError(resp)
        ELSE IF resp.status_code # 200 THEN Return(EmptyList)
        ELSE MappedList(map_partner_data(json(resp, PartnerType)), resp),
        <<Lit("Partner service communication error: ")>>)

partner_by_id_call(request, partner_id) ==
    Call("fresh", "GET", <<settings.PARTNER_SERVICE_URL, "/partners/", partner_id>>,
         [headers |-> XTenant(request), timeout |-> <<settings.REQUEST_TIMEOUT>>,
          follow_redirects |-> TRUE])

partner_by_id ==
    Serving /\ \E request \in GraphRequests, partner_id \in Ids :
        Issue("partner_by_id", request, [partner_id |-> partner_id],
              partner_by_id_call(request, partner_id))

\* mutant: the 404 branch is missing
partner_by_id_return_no404(q, resp) ==
    TryExcept(
        IF resp.kind = "transport" THEN TransportError(resp)
        ELSE IF resp.status_code # 200
        THEN Raise(Exception(<<Lit("Partner service returned "), StatusCode(resp)>>))
        ELSE MappedObject(map_partner_data(json(resp, PartnerType)), resp),
        <<Lit("Error fetching partner "), Arg(q.args.partner_id), Lit(": ")>>)

partner_by_id_return(q, resp) ==
    TryExcept(
        IF resp.kind = "transport" THEN TransportError(resp)
        ELSE IF resp.status_code = 404 THEN Return(PyNone)
        ELSE IF resp.status_code # 200
        THEN Raise(Exception(<<Lit("Partner service returned "), StatusCode(resp)>>))
        ELSE MappedObject(map_partner_data(json(resp, PartnerType)), resp),
        <<Lit("Error fetching partner "), Arg(q.args.partner_id), Lit(": ")>>)

Coordinates == {[lat |-> "46.05", lng |-> "14.5", radius_km |-> "5.0"]}

nearby_partners_call(request, a) ==
    Call("fresh", "GET", <<settings.PARTNER_SERVICE_URL, "/partners/nearby">>,
         [headers |-> XTenant(request), timeout |-> <<settings.REQUEST_TIMEOUT>>,
          follow_redirects |-> TRUE,
          params |-> << <<"lat", a.lat>>, <<"lng", a.lng>>, <<"radius_km", a.radius_km>> >>])

nearby_partners ==
    Serving /\ \E request \in GraphRequests, a \in Coordinates :
        Issue("nearby_partners", request, a, nearby_partners_call(request, a))

nearby_partners_return(q, resp) ==
    TryExcept(
        IF resp.kind = "transport" THEN TransportError(resp)
        ELSE IF resp.status_code = 404 THEN Return(PyNone)
        ELSE IF resp.status_code # 200
        THEN Raise(Exception(<<Lit("Partner service returned "), StatusCode(resp)>>))
        ELSE MappedList(map_partner_data(json(resp, PartnerType)), resp),
        <<Lit("Error fetching nearby partners at ("), Arg(<<q.args.lat, q.args.lng>>),
          Lit("): ")>>)

get_offers_call(request) ==
    Call("fresh", "GET", <<settings.OFFER_SERVICE_URL, "/offers">>,
         [headers |-> XTenant(request), timeout |-> <<settings.REQUEST_TIMEOUT>>,
          follow_redirects |-> TRUE])

get_offers ==
    Serving /\ \E request \in GraphRequests :
        Issue("get_offers", request, <<>>, get_offers_call(request))

get_offers_return(q, resp) ==
    TryExcept(
        IF resp.kind = "transport" THEN TransportError(resp)
        ELSE IF resp.status_code # 200 THEN Return(EmptyList)
        ELSE MappedList(map_offer_data(json(resp, OfferType)), resp),
        <<Lit("Payment service error: ")>>)

offer_by_id_call(request, offer_id) ==
    Call("fresh", "GET", <<settings.OFFER_SERVICE_URL, "/offers/", offer_id>>,
         [headers |-> XTenant(request), timeout |-> <<settings.REQUEST_TIMEOUT>>,
          follow_redirects |-> TRUE])

offer_by_id ==
    Serving /\ \E request \in GraphRequests, offer_id \in Ids :
        Issue("offer_by_id", request, [offer_id |-> offer_id],
              offer_by_id_call(request, offer_id))

offer_by_id_return(q, resp) ==
    TryExcept(
        IF resp.kind = "transport" THEN TransportError(resp)
        ELSE IF resp.status_code = 404 THEN Return(PyNone)
        ELSE IF resp.status_code # 200
        THEN Raise(Exception(<<Lit("Offer service returned "), StatusCode(resp)>>))
        ELSE MappedObject(map_offer_data(json(resp, OfferType)), resp),
        <<Lit("Error fetching offer "), Arg(q.args.offer_id), Lit(": ")>>)

NotificationArgs == {[user_id |-> u, unread_only |-> b] : u \in Ids, b \in {"False", "True"}}

all_notifications_call(request, a) ==
    Call("fresh", "GET", <<NOTIFICATION_SERVICE_URL, "/notifications">>,
         [headers |-> XTenant(request), timeout |-> <<settings.REQUEST_TIMEOUT>>,
          follow_redirects |-> TRUE,
          params |-> << <<"user_id", a.user_id>>, <<"unread_only", a.unread_only>> >>])

all_notifications ==
    Serving /\ \E request \in GraphRequests, a \in NotificationArgs :
        Issue("all_notifications", request, a, all_notifications_call(request, a))

all_notifications_return(q, resp) ==
    TryExcept(
        IF resp.kind = "transport" THEN TransportError(resp)
        ELSE IF resp.status_code # 200 THEN Return(EmptyList)
        ELSE MappedList(map_notification_data(json(resp, NotificationType)), resp),
        <<Lit("Partner service communication error: ")>>)

all_users_call(request) ==
    Call("fresh", "GET", <<USERS_SERVICE_URL, "/users">>,
         [headers |-> XTenant(request), timeout |-> <<settings.REQUEST_TIMEOUT>>,
          follow_redirects |-> TRUE])

all_users ==
    Serving /\ \E request \in GraphRequests :
        Issue("all_users", request, <<>>, all_users_call(request))

all_users_return(q, resp) ==
    TryExcept(
        IF resp.kind = "transport" THEN TransportError(resp)
        ELSE IF resp.status_code # 200 THEN Return(EmptyList)
        ELSE MappedList(map_user_data(json(resp, UserType)), resp),
        <<Lit("Partner service communication error: ")>>)

user_by_id_call(request, user_id) ==
    Call("fresh", "GET", <<USERS_SERVICE_URL, "/users/", user_id>>,
         [headers |-> XTenant(request), timeout |-> <<settings.REQUEST_TIMEOUT>>,
          follow_redirects |-> TRUE])

user_by_id ==
    Serving /\ \E request \in GraphRequests, user_id \in Ids :
        Issue("user_by_id", request, [user_id |-> user_id],
              user_by_id_call(request, user_id))

user_by_id_return(q, resp) ==
    TryExcept(
        IF resp.kind = "transport" THEN TransportError(resp)
        ELSE IF resp.status_code = 404 THEN Return(PyNone)
        ELSE IF resp.status_code # 200
        THEN Raise(Exception(<<Lit("User service returned "), StatusCode(resp)>>))
        ELSE MappedObject(map_user_data(json(resp, UserType)), resp),
        <<Lit("Error fetching offer "), Arg(q.args.user_id), Lit(": ")>>)

list_partner_reviews_call(request, partner_id) ==
    Call("fresh", "GET",
         <<REVIEW_SERVICE_URL, "/reviews/partners/", partner_id, "/reviews">>,
         [headers |-> XTenant(request), timeout |-> <<settings.REQUEST_TIMEOUT>>,
          follow_redirects |-> TRUE])

list_partner_reviews ==
    Serving /\ \E request \in GraphRequests, partner_id \in Ids :
        Issue("list_partner_reviews", request, [partner_id |-> partner_id],
              list_partner_reviews_call(request, partner_id))

list_partner_reviews_return(q, resp) ==
    TryExcept(
        IF resp.kind = "transport" THEN TransportError(resp)
        ELSE IF resp.status_code = 404 THEN Return(PyNone)
        ELSE IF resp.status_code # 200 THEN Return(EmptyList)
        ELSE MappedList(map_review_data(json(resp, ReviewOutType)), resp),
        <<Lit("Error fetching review "), Arg(q.args.partner_id), Lit(": ")>>)

get_partner_rating_call(request, partner_id) ==
    Call("fresh", "GET",
         <<REVIEW_SERVICE_URL, "/reviews/partners/", partner_id, "/rating">>,
         [headers |-> XTenant(request), timeout |-> <<settings.REQUEST_TIMEOUT>>,
          follow_redirects |-> TRUE])

get_partner_rating ==
    Serving /\ \E request \in GraphRequests, partner_id \in Ids :
        Issue("get_partner_rating", request, [partner_id |-> partner_id],
              get_partner_rating_call(request, partner_id))

get_partner_rating_return(q, resp) ==
    TryExcept(
        IF resp.kind = "transport" THEN TransportError(resp)
        ELSE IF resp.status_code = 404 THEN Return(PyNone)
        ELSE IF resp.status_code # 200 THEN Return(EmptyList)
        ELSE MappedObject(Construct(PartnerRatingOutType, json(resp, PartnerRatingOutType)), resp),
        <<Lit("Error fetching review "), Arg(q.args.partner_id), Lit(": ")>>)

user_order_history_call(request, user_id) ==
    Call("fresh", "GET", <<USERS_SERVICE_URL, "/users/", user_id, "/orders">>,
         [headers |-> XTenant(request), timeout |-> <<settings.REQUEST_TIMEOUT>>,
          follow_redirects |-> TRUE])

user_order_history ==
    Serving /\ \E request \in GraphRequests, user_id \in Ids :
        Issue("user_order_history", request, [user_id |-> user_id],
              user_order_history_call(request, user_id))

user_order_history_return(q, resp) ==
    TryExcept(
        IF resp.kind = "transport" THEN TransportError(resp)
        ELSE IF resp.status_code = 404 THEN Return(EmptyList)
        ELSE IF resp.status_code # 200
        THEN Raise(Exception(<<Lit("User service returned "), StatusCode(resp)>>))
        ELSE MappedList(map_order_data(json(resp, OrderType)), resp),
        <<Lit("Error fetching orders for user "), Arg(q.args.user_id), Lit(": ")>>)

\* settings.AUTH_SERVICE_URL
AUTH_SERVICE_URL == "http://auth-service:8000"

me_call(request) ==
    Call("shared", "GET", <<AUTH_SERVICE_URL, "/auth/me">>,
         [cookies |-> request_cookies(request)])

me ==
    Serving /\ \E request \in GraphRequests :
        Issue("me", request, <<>>, me_call(request))

me_return(q, resp) ==
    IF resp.kind = "transport" THEN TransportError(resp)
    ELSE IF resp.status_code # 200 THEN Return(PyNone)
    ELSE MappedObject(Construct(UserMe, json(resp, UserMe)), resp)

\* ---------------------------------------------------- schemas.py: inputs
\* what the client wrote for an input field
Absent == [given |-> "absent"]
Null == [given |-> "null"]
Given(x) == [given |-> "value", value |-> x]

\* a falsy and a truthy value of each field type
ValuesOf(type) ==
    CASE type = "str" -> {Str(""), Str("x")}
      [] type = "float" -> {Float("0.0"), Float("1.5")}
      [] type = "bool" -> {Bool("False"), Bool("True")}
      [] type = "datetime" -> {DateTime("2030-01-01T00:00:00")}

\* the fields of the update inputs; every field but OfferUpdateInput.expiry_date
\* is Optional with default None
PartnerUpdateInput ==
    [ name |-> "str", address |-> "str", city |-> "str", active |-> "bool",
      tenant_id |-> "str", latitude |-> "float", longitude |-> "float" ]

OfferUpdateInput ==
    [ partner_id |-> "str", title |-> "str", description |-> "str",
      price_original |-> "float", price_discounted |-> "float",
      expiry_date |-> "datetime", tenant_id |-> "str" ]

OfferUpdateInput_required == {"expiry_date"}

UserUpdateInput ==
    [ email |-> "str", name |-> "str", surname |-> "str", address |-> "str",
      longitude |-> "float", latitude |-> "float", partner_id |-> "str" ]

\* the documents a client can send for an input type: a required field has a
\* value; up to MaxSetFields optional fields are null or have a value
ClientInputs(cls, required) ==
    LET optional == DOMAIN cls \ required
        anyValue == UNION {ValuesOf(cls[f]) : f \in DOMAIN cls}
        written(S) == {c \in [S -> {Null} \cup {Given(x) : x \in anyValue}] :
                         \A f \in S : c[f] = Null \/ c[f].value \in ValuesOf(cls[f])}
    IN  UNION { { [f \in DOMAIN cls |->
                     IF f \in S THEN c[f]
                     ELSE IF f \in required
                          THEN Given(CHOOSE x \in ValuesOf(cls[f]) : TRUE)
                          ELSE Absent] : c \in written(S) } :
                S \in {T \in SUBSET optional : Cardinality(T) <= MaxSetFields} }

\* the input object strawberry builds: an absent field takes its default, None,
\* and so does an explicit null
input_object(doc) ==
    [f \in DOMAIN doc |-> IF doc[f].given = "value" THEN doc[f].value ELSE NoneValue]

\* update_data = {k: v for k, v in strawberry.asdict(input).items() if v is not None}
update_data(input) ==
    LET d == input
        keys == {k \in DOMAIN d : d[k].py # "NoneType"}
    IN  [k \in keys |-> d[k]]

\* json.dumps inside httpx: a datetime is not JSON serializable
json_serializable(data) == \A k \in DOMAIN data : data[k].py # "datetime"

TypeError == Raise([type |-> "TypeError", msg |-> <<ExcText("not JSON serializable")>>])

\* the cases of an update mutation: every document on one request, and one
\* document on every request and identifier
UpdateCases(cls, required) ==
    { <<PlainRequest, "p1", doc>> : doc \in ClientInputs(cls, required) }
    \cup
    { <<request, id, doc>> :
        request \in GraphRequests, id \in Ids,
        doc \in {d \in ClientInputs(cls, required) :
                    \A f \in DOMAIN cls \ required : d[f] = Absent} }

\* a resolver that raises before any call is sent
Fail(field, request, args, outcome) ==
    /\ req' = [kind |-> "graph", field |-> field,
               request |-> get_context(request).request, args |-> args]
    /\ result' = [kind |-> outcome.kind, exc |-> outcome.exc]
    /\ pc' = "done"
    /\ sink' = get_context(request).response.headers
    /\ UNCHANGED <<http_client, jar, calls, reply, answer>>

CreateOrderInputs ==
    { [user_id |-> "u1", items |-> <<[offer_id |-> "7", quantity |-> "2"]>>,
       amount |-> a, partner_id |-> "p1"] : a \in {"19.99", "0.10"} }

CreatePartnerInputs ==
    { [name |-> "x", active |-> "True", latitude |-> "46.05", longitude |-> "14.5",
       address |-> "a"] }

CreateOfferInputs ==
    { [partner_id |-> "p1", title |-> "x", description |-> d, price_original |-> "2.0",
       price_discounted |-> "1.5", expiry_date |-> DateTime("2030-01-01T00:00:00"),
       tenant_id |-> t] : d \in {NoneValue, Str("d")}, t \in {NoneValue, Str("t1")} }

RatingInputs ==
    { [order_id |-> "42", user_id |-> "u1", rating |-> "5", comment |-> c] :
        c \in {NoneValue, Str("good")} }

LoginRequests == { [username |-> "u", password |-> "pw"] }

SignupInputs == { [username |-> "u", email |-> "u@x", password |-> "pw"] }

\* ---------------------------------------------------- schemas.py: Mutation
create_order_call(request, input) ==
    Call("fresh", "POST", <<settings.ORDER_SERVICE_URL, "/orders">>,
         [body |-> [kind |-> "json",
                    v |-> [user_id |-> input.user_id,
                           items |-> [i \in DOMAIN input.items |->
                                        [offer_id |-> input.items[i].offer_id,
                                         quantity |-> input.items[i].quantity]],
                           amount |-> Str(input.amount),
                           partner_id |-> input.partner_id]],
          headers |-> XTenant(request), follow_redirects |-> TRUE])

create_order ==
    Serving /\ \E request \in GraphRequests, input \in CreateOrderInputs :
        Issue("create_order", request, [input |-> input], create_order_call(request, input))

create_order_return(q, resp) ==
    IF resp.kind = "transport" THEN TransportError(resp)
    ELSE IF resp.status_code \notin {200, 201}
    THEN Raise(Exception(<<Lit("Order creation failed: "), Text(resp)>>))
    ELSE MappedObject(map_order_data(json(resp, OrderType)), resp)

create_partner_call(request, input) ==
    Call("fresh", "POST", <<settings.PARTNER_SERVICE_URL, "/partners">>,
         [body |-> [kind |-> "json",
                    v |-> [name |-> input.name, active |-> input.active,
                           address |-> input.address, latitude |-> input.latitude,
                           longitude |-> input.longitude]],
          headers |-> XTenant(request), follow_redirects |-> TRUE])

create_partner ==
    Serving /\ \E request \in GraphRequests, input \in CreatePartnerInputs :
        Issue("create_partner", request, [input |-> input],
              create_partner_call(request, input))

create_partner_return(q, resp) ==
    IF resp.kind = "transport" THEN TransportError(resp)
    ELSE IF resp.status_code \notin {200, 201}
    THEN Raise(Exception(<<Lit("Partner creation failed: "), Text(resp)>>))
    ELSE MappedObject(map_partner_data(json(resp, PartnerType)), resp)

update_partner_call(request, partner_id, input) ==
    Call("fresh", "PUT", <<settings.PARTNER_SERVICE_URL, "/partners/", partner_id>>,
         [body |-> [kind |-> "json", v |-> update_data(input)],
          headers |-> XTenant(request)])

update_partner ==
    Serving /\ \E c \in UpdateCases(PartnerUpdateInput, {}) :
        LET request == c[1]
            partner_id == c[2]
            input == input_object(c[3])
            args == [partner_id |-> partner_id, doc |-> c[3]]
        IN  IF json_serializable(update_data(input))
            THEN Issue("update_partner", request, args,
                       update_partner_call(request, partner_id, input))
            ELSE Fail("update_partner", request, args, TypeError)

update_partner_return(q, resp) ==
    IF resp.kind = "transport" THEN TransportError(resp)
    ELSE IF resp.status_code = 404
    THEN Raise(Exception(<<Lit("Partner "), Arg(q.args.partner_id),
                           Lit(" not found in remote service.")>>))
    ELSE IF resp.status_code # 200
    THEN Raise(Exception(<<Lit("Failed to update partner: "), Text(resp)>>))
    ELSE MappedObject(Construct(PartnerType, json(resp, PartnerType)), resp)

delete_partner_call(request, partner_id) ==
    Call("fresh", "DELETE", <<settings.PARTNER_SERVICE_URL, "/partners/", partner_id>>,
         [headers |-> XTenant(request), follow_redirects |-> TRUE])

delete_partner ==
    Serving /\ \E request \in GraphRequests, partner_id \in Ids :
        Issue("delete_partner", request, [partner_id |-> partner_id],
              delete_partner_call(request, partner_id))

delete_partner_return(q, resp) ==
    IF resp.kind = "transport" THEN TransportError(resp)
    ELSE IF resp.status_code # 204
    THEN Raise(Exception(<<Lit("Partner not successfully deleted: "), Text(resp)>>))
    ELSE Return([t |-> "bool", v |-> "True"])

\* the payload of create_offer: description and tenant_id only when not None
create_offer_payload(input) ==
    LET keys == {"partner_id", "title", "price_original", "price_discounted", "expiry_date"}
                \cup (IF input.description # NoneValue THEN {"description"} ELSE {})
                \cup (IF input.tenant_id # NoneValue THEN {"tenant_id"} ELSE {})
    IN  [k \in keys |-> IF k = "expiry_date" THEN Str(input.expiry_date.v) ELSE input[k]]

create_offer_call(request, input) ==
    Call("fresh", "POST", <<settings.OFFER_SERVICE_URL, "/offers">>,
         [body |-> [kind |-> "json", v |-> create_offer_payload(input)],
          headers |-> XTenant(request), follow_redirects |-> TRUE])

create_offer ==
    Serving /\ \E request \in GraphRequests, input \in CreateOfferInputs :
        Issue("create_offer", request, [input |-> input], create_offer_call(request, input))

create_offer_return(q, resp) ==
    IF resp.kind = "transport" THEN TransportError(resp)
    ELSE IF resp.status_code \notin {200, 201}
    THEN Raise(Exception(<<Lit("Offer creation failed: "), Text(resp)>>))
    ELSE MappedObject(map_offer_data(json(resp, OfferType)), resp)

update_offer_call(request, offer_id, input) ==
    Call("fresh", "PUT", <<settings.OFFER_SERVICE_URL, "/offers/", offer_id>>,
         [body |-> [kind |-> "json", v |-> update_data(input)],
          headers |-> XTenant(request)])

update_offer ==
    Serving /\ \E c \in UpdateCases(OfferUpdateInput, OfferUpdateInput_required) :
        LET request == c[1]
            offer_id == c[2]
            input == input_object(c[3])
            args == [offer_id |-> offer_id, doc |-> c[3]]
        IN  IF json_serializable(update_data(input))
            THEN Issue("update_offer", request, args,
                       update_offer_call(request, offer_id, input))
            ELSE Fail("update_offer", request, args, TypeError)

update_offer_return(q, resp) ==
    IF resp.kind = "transport" THEN TransportError(resp)
    ELSE IF resp.status_code = 404
    THEN Raise(Exception(<<Lit("Offer "), Arg(q.args.offer_id),
                           Lit(" not found in remote service.")>>))
    ELSE IF resp.status_code # 200
    THEN Raise(Exception(<<Lit("Failed to update offer: "), Text(resp)>>))
    ELSE MappedObject(Construct(OfferType, json(resp, OfferType)), resp)

delete_offer_call(request, offer_id) ==
    Call("fresh", "DELETE", <<settings.OFFER_SERVICE_URL, "/offers/", offer_id>>,
         [headers |-> XTenant(request), follow_redirects |-> TRUE])

delete_offer ==
    Serving /\ \E request \in GraphRequests, offer_id \in Ids :
        Issue("delete_offer", request, [offer_id |-> offer_id],
              delete_offer_call(request, offer_id))

delete_offer_return(q, resp) ==
    IF resp.kind = "transport" THEN TransportError(resp)
    ELSE IF resp.status_code # 204
    THEN Raise(Exception(<<Lit("Offer not successfully deleted: "), Text(resp)>>))
    ELSE Return([t |-> "bool", v |-> "True"])

confirm_payment_call(request, payment_id) ==
    Call("fresh", "POST",
         <<settings.PAYMENT_SERVICE_URL, "/payments/", payment_id, "/confirm">>,
         [headers |-> XTenant(request), follow_redirects |-> TRUE])

confirm_payment ==
    Serving /\ \E request \in GraphRequests, payment_id \in Ids :
        Issue("confirm_payment", request, [payment_id |-> payment_id],
              confirm_payment_call(request, payment_id))

confirm_payment_return(q, resp) ==
    IF resp.kind = "transport" THEN TransportError(resp)
    ELSE IF resp.status_code # 200
    THEN Raise(Exception(<<Lit("Payment confirmation failed: "), Text(resp)>>))
    ELSE MappedObject(map_payment_data(json(resp, PaymentType)), resp)

mark_read_call(request, notification_id) ==
    Call("fresh", "POST",
         <<NOTIFICATION_SERVICE_URL, "/notifications/", notification_id, "/read">>,
         [headers |-> XTenant(request), follow_redirects |-> TRUE])

mark_read ==
    Serving /\ \E request \in GraphRequests, notification_id \in Ids :
        Issue("mark_read", request, [notification_id |-> notification_id],
              mark_read_call(request, notification_id))

mark_read_return(q, resp) ==
    IF resp.kind = "transport" THEN TransportError(resp)
    ELSE IF resp.status_code # 200
    THEN Raise(Exception(<<Lit("Payment confirmation failed: "), Text(resp)>>))
    ELSE MappedObject(map_notification_data(json(resp, NotificationType)), resp)

update_user_call(request, user_id, input) ==
    Call("fresh", "PATCH", <<USERS_SERVICE_URL, "/users/", user_id>>,
         [body |-> [kind |-> "json", v |-> update_data(input)],
          headers |-> XTenant(request)])

update_user ==
    Serving /\ \E c \in UpdateCases(UserUpdateInput, {}) :
        LET request == c[1]
            user_id == c[2]
            input == input_object(c[3])
            args == [user_id |-> user_id, doc |-> c[3]]
        IN  IF json_serializable(update_data(input))
            THEN Issue("update_user", request, args,
                       update_user_call(request, user_id, input))
            ELSE Fail("update_user", request, args, TypeError)

update_user_return(q, resp) ==
    IF resp.kind = "transport" THEN TransportError(resp)
    ELSE IF resp.status_code = 404
    THEN Raise(Exception(<<Lit("User "), Arg(q.args.user_id),
                           Lit(" not found in remote service.")>>))
    ELSE IF resp.status_code # 200
    THEN Raise(Exception(<<Lit("Failed to update user: "), Text(resp)>>))
    ELSE MappedObject(map_user_data(json(resp, UserType)), resp)

\* for cookie_string in auth_cookies: response.headers.append("set-cookie", cookie_string)
Relaying(outcome, resp) ==
    [outcome EXCEPT !.set_cookie = get_list(resp.headers, "set-cookie")]

login_call(request, input) ==
    Call("shared", "POST", <<AUTH_SERVICE_URL, "/auth/login">>,
         [body |-> [kind |-> "json",
                    v |-> [username |-> input.username, password |-> input.password]]])

login ==
    Serving /\ \E request \in GraphRequests, input \in LoginRequests :
        Issue("login", request, [input |-> input], login_call(request, input))

\* login relaying the Set-Cookie headers before it tests the status
login_return_relay_first(q, resp) ==
    IF resp.kind = "transport" THEN TransportError(resp)
    ELSE IF resp.status_code # 200
    THEN Relaying(Raise(Exception(<<Lit("Authentication failed")>>)), resp)
    ELSE Relaying(Return([t |-> "object", by |-> "LoginSuccessResponse", status |-> "ok"]),
                  resp)

login_return(q, resp) ==
    IF resp.kind = "transport" THEN TransportError(resp)
    ELSE IF resp.status_code # 200
    THEN Raise(Exception(<<Lit("Authentication failed")>>))
    ELSE Relaying(Return([t |-> "object", by |-> "LoginSuccessResponse", status |-> "ok"]),
                  resp)

signup_call(request, input) ==
    Call("shared", "POST", <<AUTH_SERVICE_URL, "/auth/signup">>,
         [body |-> [kind |-> "json",
                    v |-> [username |-> input.username, email |-> input.email,
                           password |-> input.password]]])

signup ==
    Serving /\ \E request \in GraphRequests, input \in SignupInputs :
        Issue("signup", request, [input |-> input], signup_call(request, input))

signup_return(q, resp) ==
    TryExcept(
        IF resp.kind = "transport" THEN TransportError(resp)
        ELSE IF resp.status_code # 200
        THEN (IF json_ok(resp)
              THEN Raise(Exception(<<[t |-> "get",
                                      v |-> <<resp.content, "error", "Signup failed">>]>>))
              ELSE JSONDecodeError)
        ELSE Relaying(Return([t |-> "object", by |-> "SignupResponse", status |-> "ok"]),
                      resp),
        <<Lit("Signup error: ")>>)

logout_call(request) ==
    Call("shared", "POST", <<AUTH_SERVICE_URL, "/auth/logout">>, <<>>)

logout ==
    Serving /\ \E request \in GraphRequests :
        Issue("logout", request, <<>>, logout_call(request))

\* logout testing the status as login does
logout_return_checked(q, resp) ==
    IF resp.kind = "transport" THEN TransportError(resp)
    ELSE IF resp.status_code # 200
    THEN Raise(Exception(<<Lit("Logout failed")>>))
    ELSE Relaying(Return([t |-> "object", by |-> "LogoutResponse", status |-> "logged_out"]),
                  resp)

logout_return(q, resp) ==
    IF resp.kind = "transport" THEN TransportError(resp)
    ELSE Relaying(Return([t |-> "object", by |-> "LogoutResponse", status |-> "logged_out"]),
                  resp)

\* the payload of create_review: comment only when not None
create_review_payload(input) ==
    LET keys == {"order_id", "user_id", "rating"}
                \cup (IF input.comment # NoneValue THEN {"comment"} ELSE {})
    IN  [k \in keys |-> input[k]]

create_review_call(request, input) ==
    Call("fresh", "POST", <<REVIEW_SERVICE_URL, "/reviews">>,
         [body |-> [kind |-> "json", v |-> create_review_payload(input)],
          headers |-> XTenant(request), follow_redirects |-> TRUE])

create_review ==
    Serving /\ \E request \in GraphRequests, input \in RatingInputs :
        Issue("create_review", request, [input |-> input],
              create_review_call(request, input))

create_review_return(q, resp) ==
    IF resp.kind = "transport" THEN TransportError(resp)
    ELSE IF resp.status_code \notin {200, 201}
    THEN Raise(Exception(<<Lit("Partner creation failed: "), Text(resp)>>))
    ELSE MappedObject(Construct(ReviewOutType, json(resp, ReviewOutType)), resp)

\* ------------------------------------------------- schemas.py: the schema
\* the resolver of a field, from its await of the backend call to its end
resolve(q, resp) ==
    CASE q.field = "get_orders" -> get_orders_return(q, resp)
      [] q.field = "get_payments" -> get_payments_return(q, resp)
      [] q.field = "all_partners" -> all_partners_return(q, resp)
      [] q.field = "partner_by_id" -> partner_by_id_return(q, resp)
      [] q.field = "nearby_partners" -> nearby_partners_return(q, resp)
      [] q.field = "get_offers" -> get_offers_return(q, resp)
      [] q.field = "offer_by_id" -> offer_by_id_return(q, resp)
      [] q.field = "all_notifications" -> all_notifications_return(q, resp)
      [] q.field = "all_users" -> all_users_return(q, resp)
      [] q.field = "user_by_id" -> user_by_id_return(q, resp)
      [] q.field = "list_partner_reviews" -> list_partner_reviews_return(q, resp)
      [] q.field = "get_partner_rating" -> get_partner_rating_return(q, resp)
      [] q.field = "user_order_history" -> user_order_history_return(q, resp)
      [] q.field = "me" -> me_return(q, resp)
      [] q.field = "create_order" -> create_order_return(q, resp)
      [] q.field = "create_partner" -> create_partner_return(q, resp)
      [] q.field = "update_partner" -> update_partner_return(q, resp)
      [] q.field = "delete_partner" -> delete_partner_return(q, resp)
      [] q.field = "create_offer" -> create_offer_return(q, resp)
      [] q.field = "update_offer" -> update_offer_return(q, resp)
      [] q.field = "delete_offer" -> delete_offer_return(q, resp)
      [] q.field = "confirm_payment" -> confirm_payment_return(q, resp)
      [] q.field = "mark_read" -> mark_read_return(q, resp)
      [] q.field = "update_user" -> update_user_return(q, resp)
      [] q.field = "login" -> login_return(q, resp)
      [] q.field = "signup" -> signup_return(q, resp)
      [] q.field = "logout" -> logout_return(q, resp)
      [] q.field = "create_review" -> create_review_return(q, resp)

\* the awaited call completed: the resolver runs to its return or raise
resolver_return ==
    /\ pc = "replied" /\ req.kind = "graph"
    /\ LET outcome == resolve(req, reply)
       IN  /\ result' = IF outcome.kind = "return"
                        THEN [kind |-> "return", value |-> outcome.value]
                        ELSE [kind |-> "raise", exc |-> outcome.exc]
           /\ sink' = sink \o [i \in DOMAIN outcome.set_cookie |->
                                  <<"set-cookie", outcome.set_cookie[i]>>]
    /\ pc' = "done"
    /\ UNCHANGED <<http_client, jar, req, calls, reply, answer>>

\* ------------------------------------------------------------- the backends
\* the backend answers the last call; a response received through the shared
\* client passes through its cookie jar
BackendRespond ==
    /\ pc = "awaiting"
    /\ \E resp \in Responses :
          /\ reply' = resp
          /\ jar' = IF calls[Len(calls)].client = "shared"
                    THEN extract_cookies(jar, resp) ELSE jar
    /\ pc' = "replied"
    /\ UNCHANGED <<http_client, req, calls, result, answer, sink>>

BackendUnreachable ==
    /\ pc = "awaiting"
    /\ \E e \in TransportErrors : reply' = [kind |-> "transport", exc |-> e]
    /\ pc' = "replied"
    /\ UNCHANGED <<http_client, jar, req, calls, result, answer, sink>>

\* ------------------------------------------------------------------ main.py
startup_event ==
    /\ http_client = "none"
    /\ http_client' = "open"
    /\ jar' = <<>>
    /\ UNCHANGED <<pc, req, calls, reply, result, answer, sink>>

shutdown_event ==
    /\ http_client = "open" /\ pc = "idle"
    /\ http_client' = "closed"
    /\ UNCHANGED <<jar, pc, req, calls, reply, result, answer, sink>>

\* the response is complete and the request's state is discarded
Finish ==
    /\ pc = "done"
    /\ pc' = "idle"
    /\ req' = None /\ calls' = <<>> /\ reply' = None
    /\ result' = None /\ answer' = None /\ sink' = <<>>
    /\ UNCHANGED <<http_client, jar>>

Init ==
    /\ http_client = "none"
    /\ jar = <<>>
    /\ pc = "idle"
    /\ req = None /\ calls = <<>> /\ reply = None
    /\ result = None /\ answer = None /\ sink = <<>>

Next ==
    \/ startup_event
    \/ shutdown_event
    \/ users_proxy
    \/ partners_proxy
    \/ offer_proxy
    \/ order_proxy
    \/ payment_proxy
    \/ notification_proxy
    \/ review_proxy
    \/ BackendRespond
    \/ BackendUnreachable
    \/ forward_request_return
    \/ forward_request_raise
    \/ get_orders
    \/ get_payments
    \/ all_partners
    \/ partner_by_id
    \/ nearby_partners
    \/ get_offers
    \/ offer_by_id
    \/ all_notifications
    \/ all_users
    \/ user_by_id
    \/ list_partner_reviews
    \/ get_partner_rating
    \/ user_order_history
    \/ me
    \/ create_order
    \/ create_partner
    \/ update_partner
    \/ delete_partner
    \/ create_offer
    \/ update_offer
    \/ delete_offer
    \/ confirm_payment
    \/ mark_read
    \/ update_user
    \/ login
    \/ signup
    \/ logout
    \/ create_review
    \/ resolver_return
    \/ Finish

Spec == Init /\ [][Next]_vars

\* ------------------------------------------- the mappers on their own inputs
\* what a time field can hold when a mapper is called: ISO-8601 text ending in
\* Z, with an offset, without one, and a datetime
TimeValues ==
    { Str("2024-01-01T00:00:00Z"), Str("2024-06-30T23:30:00Z"),
      Str("2024-01-01T00:00:00+00:00"), Str("2024-01-01T01:00:00+01:00"),
      Str("2024-01-01T00:00:00"), DateTime("2024-01-01 00:00:00 +00:00") }

TimeFieldsOf(type) == type.fields \cap {"created_at", "updated_at", "expiry_date"}

\* the payloads of a record: every value of every time field, complete or
\* lacking one field
Payloads(type) ==
    LET timed == { [f \in type.fields |->
                      IF f \in TimeFieldsOf(type) THEN t[f] ELSE sample(f)] :
                   t \in [TimeFieldsOf(type) -> TimeValues] }
    IN  timed \cup { without(d, f) : d \in timed, f \in type.fields }

Mappers ==
    {"map_payment_data", "map_order_data", "map_partner_data", "map_notification_data",
     "map_review_data", "map_user_data", "map_offer_data"}

\* a mapper is about to be called on a payload
MapInit ==
    /\ http_client = "none" /\ jar = <<>>
    /\ pc = "mapping"
    /\ \E mapper \in Mappers : \E data \in Payloads(RecordOf(mapper)) :
          req = [kind |-> "mapper", mapper |-> mapper, data |-> data]
    /\ calls = <<>> /\ reply = None /\ result = None /\ answer = None /\ sink = <<>>

Mapped(mapper, outcome) ==
    /\ pc = "mapping" /\ req.mapper = mapper
    /\ result' = outcome
    /\ pc' = "mapped"
    /\ UNCHANGED <<http_client, jar, req, calls, reply, answer, sink>>

call_map_payment_data == req.kind = "mapper" /\ Mapped("map_payment_data", map_payment_data(req.data))

call_map_order_data == req.kind = "mapper" /\ Mapped("map_order_data", map_order_data(req.data))

call_map_partner_data == req.kind = "mapper" /\ Mapped("map_partner_data", map_partner_data(req.data))

call_map_notification_data ==
    req.kind = "mapper" /\ Mapped("map_notification_data", map_notification_data(req.data))

call_map_review_data == req.kind = "mapper" /\ Mapped("map_review_data", map_review_data(req.data))

call_map_user_data == req.kind = "mapper" /\ Mapped("map_user_data", map_user_data(req.data))

call_map_offer_data == req.kind = "mapper" /\ Mapped("map_offer_data", map_offer_data(req.data))

MapNext ==
    \/ call_map_payment_data
    \/ call_map_order_data
    \/ call_map_partner_data
    \/ call_map_notification_data
    \/ call_map_review_data
    \/ call_map_user_data
    \/ call_map_offer_data

MapSpec == MapInit /\ [][MapNext]_vars

\* ------------------------- concurrent requests and documents of several fields
\* In this specification every variable but http_client and jar holds one
\* value per inbound request in flight (a slot); reply and result of a slot
\* hold one value per field of its document.
Slots == {1, 2}

\* the fields whose return annotation is Optional[...]: every other field of
\* the schema is non-null
Nullable(field) == field \in {"partner_by_id", "offer_by_id", "user_by_id", "me"}

\* two inbound requests of different tenants, one of them with a session cookie
ConcurrentRequests ==
    { [headers |-> << <<"X-Tenant-ID", "t1">>, <<"cookie", "sid=1">> >>],
      [headers |-> <<>>] }

\* the selections of the documents: a field with its arguments
Selection(field) ==
    CASE field \in {"partner_by_id", "delete_partner"}
            -> [field |-> field, args |-> [partner_id |-> "p1"]]
      [] field = "login"
            -> [field |-> field, args |-> [input |-> [username |-> "u", password |-> "pw"]]]
      [] OTHER -> [field |-> field, args |-> <<>>]

\* query documents and mutation documents of one field and of two fields
Documents ==
    { [operation |-> "query", fields |-> <<Selection(f)>>] :
        f \in {"get_orders", "partner_by_id", "me"} }
    \cup
    { [operation |-> "query", fields |-> <<Selection(p[1]), Selection(p[2])>>] :
        p \in { <<"get_orders", "partner_by_id">>, <<"get_orders", "me">>,
                <<"partner_by_id", "me">>, <<"me", "get_orders">> } }
    \cup
    { [operation |-> "mutation", fields |-> <<Selection(f)>>] :
        f \in {"login", "delete_partner"} }
    \cup
    { [operation |-> "mutation", fields |-> <<Selection(p[1]), Selection(p[2])>>] :
        p \in { <<"login", "delete_partner">>, <<"delete_partner", "login">> } }

\* the answers of a backend to a call of these documents
DocumentResponses ==
    { [kind |-> "response", status_code |-> 200, content |-> "ok_json", headers |-> <<>>],
      [kind |-> "response", status_code |-> 204, content |-> "ok_json", headers |-> <<>>],
      [kind |-> "response", status_code |-> 500, content |-> "ok_json", headers |-> <<>>],
      [kind |-> "response", status_code |-> 200, content |-> "ok_json",
       headers |-> << <<"Set-Cookie", <<"a=1">> >> >>],
      [kind |-> "response", status_code |-> 401, content |-> "ok_json",
       headers |-> << <<"Set-Cookie", <<"b=2">> >> >>] }

\* the resolver invocation of a selection of a document
Invocation(doc, i) ==
    [kind |-> "graph", field |-> doc.fields[i].field, request |-> doc.request,
     args |-> doc.fields[i].args]

\* the call a resolver of these documents awaits
call_of(q) ==
    CASE q.field = "get_orders" -> get_orders_call(q.request)
      [] q.field = "partner_by_id" -> partner_by_id_call(q.request, q.args.partner_id)
      [] q.field = "me" -> me_call(q.request)
      [] q.field = "login" -> login_call(q.request, q.args.input)
      [] q.field = "delete_partner" -> delete_partner_call(q.request, q.args.partner_id)

Awaiting == [kind |-> "awaiting"]

Settled(s, i) == result[s][i] # None

\* a resolver raised and the type of its field is non-null: the error
\* propagates to the root and the data of the response is null
NonNullFailure(s) ==
    \E i \in DOMAIN result[s] :
        /\ Settled(s, i) /\ result[s][i].kind = "raise"
        /\ ~Nullable(req[s].fields[i].field)

\* the fields whose resolvers the executor starts when execution begins: all
\* of a query, the first of a mutation
Started(doc) == IF doc.operation = "query" THEN DOMAIN doc.fields ELSE {1}

RECURSIVE issue_all(_, _, _)
\* the calls of the fields from i on that are started, in field order
issue_all(doc, started, i) ==
    IF i > Len(doc.fields) THEN <<>>
    ELSE (IF i \in started THEN <<build_request(call_of(Invocation(doc, i)))>> ELSE <<>>)
         \o issue_all(doc, started, i + 1)

\* an inbound request to /graphql: get_context builds its context and the
\* executor starts the resolvers of its document, each up to its awaited call
graphql_request(s) ==
    /\ http_client = "open" /\ pc[s] = "idle"
    /\ \E request \in ConcurrentRequests, d \in Documents :
          LET doc == [kind |-> "document", operation |-> d.operation,
                      request |-> get_context(request).request, fields |-> d.fields]
          IN  \* two documents in flight have one field each
              /\ \A t \in Slots \ {s} :
                    IF pc[t] = "idle" THEN TRUE
                    ELSE Len(doc.fields) = 1 /\ Len(req[t].fields) = 1
              /\ req' = [req EXCEPT ![s] = doc]
              /\ calls' = [calls EXCEPT ![s] = issue_all(doc, Started(doc), 1)]
              /\ reply' = [reply EXCEPT ![s] =
                              [i \in DOMAIN doc.fields |->
                                 IF i \in Started(doc) THEN Awaiting ELSE None]]
              /\ result' = [result EXCEPT ![s] = [i \in DOMAIN doc.fields |-> None]]
              /\ sink' = [sink EXCEPT ![s] = get_context(request).response.headers]
    /\ pc' = [pc EXCEPT ![s] = "executing"]
    /\ UNCHANGED <<http_client, jar, answer>>

\* the call of a field of the document of slot s
CallOfField(s, i) ==
    IF req[s].operation = "query" THEN calls[s][i] ELSE calls[s][Len(calls[s])]

\* the backend answers the call of a field, or the call fails in the transport
field_respond(s) ==
    /\ pc[s] = "executing"
    /\ \E i \in DOMAIN reply[s] :
          /\ reply[s][i] = Awaiting
          /\ \/ \E resp \in DocumentResponses :
                   /\ reply' = [reply EXCEPT ![s][i] = resp]
                   /\ jar' = IF CallOfField(s, i).client = "shared"
                             THEN extract_cookies(jar, resp) ELSE jar
             \/ /\ reply' = [reply EXCEPT ![s][i] =
                                [kind |-> "transport", exc |-> "ConnectError"]]
                /\ jar' = jar
    /\ UNCHANGED <<http_client, pc, req, calls, result, answer, sink>>

\* the resolver of a field runs from its awaited call to its return or raise;
\* a mutation then starts its next field, unless a non-null field failed
field_return(s) ==
    /\ pc[s] = "executing"
    /\ \E i \in DOMAIN reply[s] :
          /\ reply[s][i] \notin {None, Awaiting} /\ ~Settled(s, i)
          /\ LET q == Invocation(req[s], i)
                 outcome == resolve(q, reply[s][i])
                 next == /\ req[s].operation = "mutation"
                         /\ i < Len(req[s].fields)
                         /\ (outcome.kind = "return" \/ Nullable(q.field))
             IN  /\ result' = [result EXCEPT ![s][i] =
                                  IF outcome.kind = "return"
                                  THEN [kind |-> "return", value |-> outcome.value]
                                  ELSE [kind |-> "raise", exc |-> outcome.exc]]
                 /\ sink' = [sink EXCEPT ![s] =
                                @ \o [j \in DOMAIN outcome.set_cookie |->
                                        <<"set-cookie", outcome.set_cookie[j]>>]]
                 /\ calls' = IF next
                             THEN [calls EXCEPT ![s] =
                                      Append(@, build_request(call_of(Invocation(req[s], i + 1))))]
                             ELSE calls
                 /\ reply' = IF next THEN [reply EXCEPT ![s][i + 1] = Awaiting] ELSE reply
    /\ UNCHANGED <<http_client, jar, pc, req, answer>>

\* the response of the executor: the data is null when a non-null field
\* failed, else it has the value of each field, null for a failed nullable
\* one; the errors are those of the failed nullable fields and of the first
\* failed non-null field
execution_result(s) ==
    LET failed == {i \in DOMAIN result[s] : Settled(s, i) /\ result[s][i].kind = "raise"}
        fatal == {i \in failed : ~Nullable(req[s].fields[i].field)}
        first == IF fatal = {} THEN {} ELSE {CHOOSE i \in fatal : \A j \in fatal : i <= j}
    IN  [ data |-> IF NonNullFailure(s) THEN PyNone
                   ELSE [t |-> "data",
                         fields |-> [i \in DOMAIN result[s] |->
                                       IF i \in failed THEN PyNone ELSE result[s][i].value]],
          errors |-> { [path |-> i, message |-> result[s][i].exc.msg] :
                          i \in (failed \ fatal) \cup first },
          headers |-> sink[s] ]

\* execution ends when every field is settled or a non-null field failed
graphql_response(s) ==
    /\ pc[s] = "executing"
    /\ (\A i \in DOMAIN result[s] : Settled(s, i)) \/ NonNullFailure(s)
    /\ answer' = [answer EXCEPT ![s] = execution_result(s)]
    /\ pc' = [pc EXCEPT ![s] = "done"]
    /\ UNCHANGED <<http_client, jar, req, calls, reply, result, sink>>

\* the response is complete and the context of the request is discarded
request_done(s) ==
    /\ pc[s] = "done"
    /\ pc' = [pc EXCEPT ![s] = "idle"]
    /\ req' = [req EXCEPT ![s] = None]
    /\ calls' = [calls EXCEPT ![s] = <<>>]
    /\ reply' = [reply EXCEPT ![s] = None]
    /\ result' = [result EXCEPT ![s] = None]
    /\ answer' = [answer EXCEPT ![s] = None]
    /\ sink' = [sink EXCEPT ![s] = <<>>]
    /\ UNCHANGED <<http_client, jar>>

\* the server stops after the requests in flight are answered
shutdown_drained ==
    /\ http_client = "open" /\ \A s \in Slots : pc[s] = "idle"
    /\ http_client' = "closed"
    /\ UNCHANGED <<jar, pc, req, calls, reply, result, answer, sink>>

GraphqlRequest == \E s \in Slots : graphql_request(s)

FieldRespond == \E s \in Slots : field_respond(s)

FieldReturn == \E s \in Slots : field_return(s)

GraphqlResponse == \E s \in Slots : graphql_response(s)

RequestDone == \E s \in Slots : request_done(s)

ConcurrentInit ==
    /\ http_client = "none" /\ jar = <<>>
    /\ pc = [s \in Slots |-> "idle"]
    /\ req = [s \in Slots |-> None]
    /\ calls = [s \in Slots |-> <<>>]
    /\ reply = [s \in Slots |-> None]
    /\ result = [s \in Slots |-> None]
    /\ answer = [s \in Slots |-> None]
    /\ sink = [s \in Slots |-> <<>>]

ConcurrentNext ==
    \/ startup_event
    \/ shutdown_drained
    \/ GraphqlRequest
    \/ FieldRespond
    \/ FieldReturn
    \/ GraphqlResponse
    \/ RequestDone

ConcurrentSpec == ConcurrentInit /\ [][ConcurrentNext]_vars

\* =================================================================== claims
IsProxy == req.kind = "proxy"

\* the five header names the forwarder strips, as the specification lists them
StrippedNames == {"host", "content-length", "connection", "origin", "referer"}

NonStripped(hs) == SelectSeq(hs, LAMBDA h : lower(h[1]) \notin StrippedNames)

Occurrences(hs, name) == Cardinality({i \in DOMAIN hs : lower(hs[i][1]) = name})

\* C1: the header list of the backend call of forward_request holds no entry
\* whose name, compared case-insensitively, is host, content-length,
\* connection, origin or referer, whatever the inbound list holds.
C1_NoStrippedHeaderForwarded ==
    IsProxy =>
        \A c \in DOMAIN calls : \A i \in DOMAIN calls[c].headers :
            lower(calls[c].headers[i][1]) \notin StrippedNames

\* a call was issued for an inbound list that holds Host twice around a kept
\* header, in mixed case
C1_Witness ==
    /\ IsProxy /\ Len(calls) = 1
    /\ req.inbound.headers = << <<"Host", "gw">>, <<"cookie", "a">>, <<"Host", "gw">> >>
    /\ calls[1].headers = << <<"cookie", "a">> >>

\* C2: the headers whose names are not stripped reach the backend call with
\* the same names, values, multiplicity and relative order as inbound.
C2_OtherHeadersUnchanged ==
    IsProxy =>
        \A c \in DOMAIN calls :
            NonStripped(calls[c].headers) = NonStripped(req.inbound.headers)

\* two Cookie headers and the tenant header were forwarded around a stripped one
C2_Witness ==
    /\ IsProxy /\ Len(calls) = 1
    /\ req.inbound.headers = << <<"cookie", "b">>, <<"origin", "web">>, <<"cookie", "a">> >>
    /\ calls[1].headers = << <<"cookie", "b">>, <<"cookie", "a">> >>

C4_ResponseMirrorsBackend ==
    (IsProxy /\ pc = "done" /\ reply.kind = "response") =>
        /\ answer.status_code = reply.status_code
        /\ answer.content = reply.content
        /\ \A i \in DOMAIN reply.headers : \E j \in DOMAIN answer.headers :
              /\ lower(answer.headers[j][1]) = lower(reply.headers[i][1])
              /\ answer.headers[j][2] = reply.headers[i][2]
        /\ \A n \in {"set-cookie", "content-type"} :
              Occurrences(answer.headers, n) = Occurrences(reply.headers, n)

\* C5: when the backend call of a passthrough route fails in the transport,
\* forward_request raises that failure, the gateway answers with a 5xx and
\* exactly one call attempt was made.
C5_TransportFailureSurfaced ==
    (IsProxy /\ pc = "done" /\ reply.kind = "transport") =>
        /\ result = [kind |-> "raise", exc |-> reply.exc]
        /\ answer.status_code \in 500..599
        /\ Len(calls) = 1

\* GET /orders/orders/42 timed out and was answered
C5_Witness ==
    /\ IsProxy /\ pc = "done" /\ reply = [kind |-> "transport", exc |-> "ReadTimeout"]
    /\ req.inbound.prefix = "/orders" /\ req.inbound.method = "GET"
    /\ answer.status_code = 500

IsGraph == req.kind = "graph"

Answered == IsGraph /\ pc = "done" /\ reply.kind = "response"

\* the tenant of the inbound request: its X-Tenant-ID header, or "public"
InboundTenant ==
    IF \E i \in DOMAIN req.request.headers : lower(req.request.headers[i][1]) = "x-tenant-id"
    THEN LET i == CHOOSE i \in DOMAIN req.request.headers :
                    lower(req.request.headers[i][1]) = "x-tenant-id"
         IN  req.request.headers[i][2]
    ELSE "public"

\* C6 (as claimed): every backend call of every resolver, the auth-flow
\* resolvers included, carries an X-Tenant-ID header with the inbound tenant,
\* or "public" when the inbound header is absent.
C6_EveryCallCarriesTenant ==
    IsGraph =>
        \A c \in DOMAIN calls :
            \E i \in DOMAIN calls[c].headers :
                /\ lower(calls[c].headers[i][1]) = "x-tenant-id"
                /\ calls[c].headers[i][2] = InboundTenant

\* C7: a 404 answer to partner_by_id, offer_by_id or user_by_id makes the
\* resolver return None, for every identifier, and raise nothing.
C7_NotFoundIsNoValue ==
    (Answered /\ req.field \in {"partner_by_id", "offer_by_id", "user_by_id"}
              /\ reply.status_code = 404) =>
        result = [kind |-> "return", value |-> PyNone]

\* partner_by_id("p1") was answered 404 and returned None
C7_Witness ==
    /\ Answered /\ req.field = "partner_by_id" /\ req.args.partner_id = "p1"
    /\ reply.status_code = 404
    /\ result = [kind |-> "return", value |-> PyNone]

ListFields ==
    {"get_orders", "get_payments", "all_partners", "nearby_partners", "get_offers",
     "all_notifications", "all_users", "list_partner_reviews", "user_order_history"}

\* C8 (as claimed): every list-returning query field answers every backend
\* status other than 200 with an empty list, neither None nor an error.
C8_ListFieldsReturnEmptyList ==
    (Answered /\ req.field \in ListFields /\ reply.status_code # 200) =>
        result = [kind |-> "return", value |-> EmptyList]

MutationFields ==
    {"create_order", "create_partner", "update_partner", "delete_partner",
     "create_offer", "update_offer", "delete_offer", "confirm_payment", "mark_read",
     "update_user", "login", "signup", "logout", "create_review"}

SingleEntityFields ==
    {"partner_by_id", "offer_by_id", "user_by_id", "get_partner_rating", "me"}

\* the statuses a call takes for a success (a 404 of the three lookups of C7 is
\* their not-found result; logout takes every status)
SuccessSet(field) ==
    CASE field \in {"create_order", "create_partner", "create_offer", "create_review"}
            -> {200, 201}
      [] field \in {"delete_partner", "delete_offer"} -> {204}
      [] field \in {"partner_by_id", "offer_by_id", "user_by_id"} -> {200, 404}
      [] field = "logout" -> Statuses
      [] OTHER -> {200}

\* the domain service a field calls
ServiceOf(field) ==
    CASE field \in {"create_order"} -> "order"
      [] field \in {"confirm_payment"} -> "payment"
      [] field \in {"partner_by_id", "create_partner", "update_partner", "delete_partner"}
            -> "partner"
      [] field \in {"offer_by_id", "create_offer", "update_offer", "delete_offer"} -> "offer"
      [] field \in {"user_by_id", "update_user"} -> "user"
      [] field \in {"mark_read"} -> "notification"
      [] field \in {"get_partner_rating", "create_review"} -> "review"
      [] OTHER -> "auth"

\* the service an error text names
ServiceNamed(text) ==
    CASE text \in {"Order creation failed: ", "Order service error: "} -> "order"
      [] text \in {"Payment confirmation failed: ", "Payment service error: "} -> "payment"
      [] text \in {"Partner creation failed: ", "Failed to update partner: ", "Partner ",
                   "Partner not successfully deleted: ", "Partner service returned ",
                   "Error fetching partner ", "Partner service communication error: ",
                   "Error fetching nearby partners at ("}
            -> "partner"
      [] text \in {"Offer creation failed: ", "Failed to update offer: ", "Offer ",
                   "Offer not successfully deleted: ", "Offer service returned ",
                   "Error fetching offer "} -> "offer"
      [] text \in {"Failed to update user: ", "User ", "User service returned ",
                   "Error fetching orders for user "} -> "user"
      [] text \in {"Error fetching review "} -> "review"
      [] text \in {"Authentication failed", "Signup error: "} -> "auth"
      [] OTHER -> "none"

\* C9 (as claimed): a mutation or single-entity query whose backend answers
\* outside the call's success set raises, and the error carries the backend's
\* response body and names the failing domain service.
C9_FailureRaisesWithBodyAndService ==
    (Answered /\ req.field \in MutationFields \cup SingleEntityFields
              /\ reply.status_code \notin SuccessSet(req.field)) =>
        /\ result.kind = "raise"
        /\ \E i \in DOMAIN result.exc.msg :
              result.exc.msg[i].t = "text" /\ result.exc.msg[i].v = reply.content
        /\ \E i \in DOMAIN result.exc.msg :
              /\ result.exc.msg[i].t = "lit"
              /\ ServiceNamed(result.exc.msg[i].v) = ServiceOf(req.field)

UpdateFields == {"update_partner", "update_offer", "update_user"}

\* the JSON object of the fields a document gives a value
SparsePatch(doc) ==
    [f \in {g \in DOMAIN doc : doc[g].given = "value"} |-> doc[f].value]

\* C10 (as claimed): an update mutation sends one call whose JSON body holds
\* exactly the input fields that are not absent, each with its input value
\* (stated on the documents that write no explicit null).
C10_UpdateBodyIsSparsePatch ==
    (IsGraph /\ req.field \in UpdateFields
             /\ \A f \in DOMAIN req.args.doc : req.args.doc[f] # Null) =>
        /\ Len(calls) = 1
        /\ calls[1].body = [kind |-> "json", v |-> SparsePatch(req.args.doc)]

AuthFields == {"login", "signup", "logout", "me"}

\* C11 (as claimed): for login, signup, logout and me, the Set-Cookie headers
\* of the gateway response are exactly the Set-Cookie headers of the auth
\* backend's response: as many, the same values, the same order.
C11_SetCookieRelayedInFull ==
    (Answered /\ req.field \in AuthFields) =>
        get_list(sink, "set-cookie") = get_list(reply.headers, "set-cookie")

\* the cookies of the inbound request, as a set of name and value pairs
InboundCookies ==
    {request_cookies(req.request)[i] : i \in DOMAIN request_cookies(req.request)}

\* C12 (as claimed): a request that resolves me issues one call, to /auth/me
\* of the auth backend, that carries every inbound cookie with its value and
\* no other cookie; a non-200 answer makes me return None.
C12_MeCallCarriesInboundCookies ==
    (IsGraph /\ req.field = "me" /\ pc \in {"awaiting", "replied", "done"}) =>
        /\ Len(calls) = 1
        /\ calls[1].url = <<AUTH_SERVICE_URL, "/auth/me">>
        /\ {calls[1].cookies[i] : i \in DOMAIN calls[1].cookies} = InboundCookies
        /\ (pc = "done" /\ reply.kind = "response" /\ reply.status_code # 200) =>
              result = [kind |-> "return", value |-> PyNone]

IsMapped == req.kind = "mapper" /\ pc = "mapped"

\* the mappers of the records that have time fields
TimeMappers ==
    {"map_order_data", "map_payment_data", "map_offer_data", "map_user_data",
     "map_review_data"}

\* the instant (in UTC) an ISO-8601 text with Z or an offset denotes
Denoted(text) ==
    CASE text = "2024-01-01T00:00:00Z" -> "2024-01-01 00:00 UTC"
      [] text = "2024-01-01T00:00:00+00:00" -> "2024-01-01 00:00 UTC"
      [] text = "2024-01-01T01:00:00+01:00" -> "2024-01-01 00:00 UTC"
      [] text = "2024-06-30T23:30:00Z" -> "2024-06-30 23:30 UTC"

\* the instant (in UTC) of a datetime that has an offset
Instant(dt) ==
    CASE dt.v = "2024-01-01 00:00:00 +00:00" -> "2024-01-01 00:00 UTC"
      [] dt.v = "2024-01-01 01:00:00 +01:00" -> "2024-01-01 00:00 UTC"
      [] dt.v = "2024-06-30 23:30:00 +00:00" -> "2024-06-30 23:30 UTC"
      [] OTHER -> "none"

OffsetTexts ==
    {"2024-01-01T00:00:00Z", "2024-06-30T23:30:00Z", "2024-01-01T00:00:00+00:00",
     "2024-01-01T01:00:00+01:00"}

\* C13 (as claimed): a mapper of a record with time fields, called on a
\* payload that has every field, puts into each time field the instant its
\* ISO-8601 text denotes (a trailing Z read as +00:00), and passes a value that
\* is already a datetime into the record unchanged, without raising.
C13_TimeFieldsParsedOrPassed ==
    (IsMapped /\ req.mapper \in TimeMappers
              /\ DOMAIN req.data = RecordOf(req.mapper).fields) =>
        /\ result.kind = "return"
        /\ \A f \in TimeFieldsOf(RecordOf(req.mapper)) :
              /\ (req.data[f].py = "str" /\ req.data[f].v \in OffsetTexts) =>
                    /\ result.value.fields[f].py = "datetime"
                    /\ Instant(result.value.fields[f]) = Denoted(req.data[f].v)
              /\ req.data[f].py = "datetime" => result.value.fields[f] = req.data[f]

\* C14 (as claimed): create_order answered 201 with an order JSON that has
\* "created_at": "2024-01-01T00:00:00Z" and the submitted amount returns an
\* order record whose timestamp is UTC midnight of 1 January 2024 and whose
\* amount is the decimal submitted.
C14_CreateOrderReturnsRecord ==
    (Answered /\ req.field = "create_order" /\ reply.status_code = 201
              /\ reply.content = "extra_json" /\ req.args.input.amount = "19.99") =>
        /\ result.kind = "return"
        /\ Instant(result.value.fields["created_at"]) = "2024-01-01 00:00 UTC"
        /\ "amount" \in DOMAIN result.value.fields
        /\ result.value.fields["amount"] = Decimal(Str("19.99"))

\* the record kind a field returns (one record or a list of them)
RecordKindOf(field) ==
    CASE field \in {"get_orders", "user_order_history", "create_order"} -> "OrderType"
      [] field \in {"get_payments", "confirm_payment"} -> "PaymentType"
      [] field \in {"all_partners", "partner_by_id", "nearby_partners", "create_partner",
                    "update_partner"} -> "PartnerType"
      [] field \in {"get_offers", "offer_by_id", "create_offer", "update_offer"}
            -> "OfferType"
      [] field \in {"all_notifications", "mark_read"} -> "NotificationType"
      [] field \in {"all_users", "user_by_id", "update_user"} -> "UserType"
      [] field \in {"list_partner_reviews", "create_review"} -> "ReviewOutType"
      [] OTHER -> "none"

\* the body lacks a field the record kind declares without an optional type:
\* id in every kind, active in PartnerType
LacksRequiredField(body, kind) ==
    \/ body = "lacks_id" /\ kind # "none"
    \/ body = "lacks_active" /\ kind = "PartnerType"

\* C15 (as claimed): a 200/201 answer whose payload lacks a field that the
\* record kind declares without an optional type makes the resolver fail; no
\* record is built with a default in the place of the missing field.
C15_MissingRequiredFieldFails ==
    (Answered /\ reply.status_code \in {200, 201} \cap SuccessSet(req.field)
              /\ LacksRequiredField(reply.content, RecordKindOf(req.field))) =>
        result.kind = "raise"

\* the errors a resolver produces for a cause, over every answer of that cause
ErrorKinds(answers) ==
    {resolve(req, r).exc.type : r \in {a \in answers : resolve(req, a).kind = "raise"}}

\* a success status with a body that is not JSON or lacks a required field
DecodingFailures ==
    {r \in Responses : /\ r.status_code \in {200, 201} \cap SuccessSet(req.field)
                       /\ \/ r.content = "bad_json"
                          \/ LacksRequiredField(r.content, RecordKindOf(req.field))}

TransportFailures == {[kind |-> "transport", exc |-> e] : e \in TransportErrors}

ApplicationErrors == {r \in Responses : r.status_code \notin SuccessSet(req.field)}

\* C16 (as claimed): for every resolver, the kind of the error of a decoding
\* failure, of a transport failure and of a non-success upstream status differ
\* pairwise.
C16_ErrorKindsDistinct ==
    (IsGraph /\ pc = "awaiting") =>
        /\ ErrorKinds(DecodingFailures) \cap ErrorKinds(TransportFailures) = {}
        /\ ErrorKinds(DecodingFailures) \cap ErrorKinds(ApplicationErrors) = {}
        /\ ErrorKinds(TransportFailures) \cap ErrorKinds(ApplicationErrors) = {}

\* the domain service a base URL belongs to
ServiceAt(base_url) ==
    CASE base_url = "http://order-service:8000" -> "order"
      [] base_url = "http://payment-service:8000" -> "payment"
      [] base_url = "http://partner-service:8000" -> "partner"
      [] base_url = "http://offer-service:8000" -> "offer"
      [] base_url = "http://user-service:8000" -> "user"
      [] base_url = "http://notification-service:8000" -> "notification"
      [] base_url = "http://review-service:8000" -> "review"
      [] base_url = "http://auth-service:8000" -> "auth"

\* C17 (as claimed): when the backend call of a resolver fails in the
\* transport, the resolver raises an error that names the domain service the
\* call was addressed to, and no second call is made.
C17_TransportErrorNamesService ==
    (IsGraph /\ pc = "done" /\ reply.kind = "transport") =>
        /\ result.kind = "raise"
        /\ Len(calls) = 1
        /\ \E i \in DOMAIN result.exc.msg :
              /\ result.exc.msg[i].t = "lit"
              /\ ServiceNamed(result.exc.msg[i].v) = ServiceAt(calls[1].url[1])


\* a request of the concurrent gateway whose document is answered
Responded(s) == pc[s] = "done"

\* the fields of the document of slot s whose resolver returned a value
Succeeded(s) ==
    {i \in DOMAIN result[s] : Settled(s, i) /\ result[s][i].kind = "return"}

\* the fields of the document of slot s whose resolver raised
Failed(s) ==
    {i \in DOMAIN result[s] : Settled(s, i) /\ result[s][i].kind = "raise"}

\* C18 (as claimed): in the response to a document of several fields, every
\* field whose resolver returned has its value in the data of the response,
\* and the errors of the response are those of the fields whose resolver
\* raised, one for each, whatever the combination of failing and succeeding
\* fields.
C18_SiblingFieldsKeepTheirValue ==
    \A s \in Slots :
        (Responded(s) /\ Len(req[s].fields) > 1) =>
            /\ \A i \in Succeeded(s) :
                  IF answer[s].data = PyNone THEN FALSE
                  ELSE answer[s].data.fields[i] = result[s][i].value
            /\ {e.path : e \in answer[s].errors} = Failed(s)

\* the cookies of a sequence of name and value pairs, as a set
CookieSet(cookies) == {cookies[i] : i \in DOMAIN cookies}

\* the Set-Cookie values the backends sent in answer to the calls of slot s
OwnSetCookies(s) ==
    UNION { {cv \in {<<"a=1">>, <<"b=2">>} :
                \E h \in DOMAIN reply[s][i].headers :
                    /\ lower(reply[s][i].headers[h][1]) = "set-cookie"
                    /\ reply[s][i].headers[h][2] = cv} :
            i \in {j \in DOMAIN reply[s] :
                     reply[s][j] \notin {None, Awaiting} /\ reply[s][j].kind = "response"} }

\* the cookies the backends send with an answer of status 400 or more
FailureCookies ==
    UNION { {cookie_pair(resp.headers[h][2]) : h \in DOMAIN resp.headers} :
            resp \in {r \in DocumentResponses : r.status_code >= 400} }

\* C19 (as claimed): under any interleaving of two requests in flight, the
\* Set-Cookie headers of the response of a request are among those its own
\* backend answers carried, every backend call of a request carries no tenant
\* but that of its own inbound request and no cookie but those of its own
\* inbound request, and the shared transport keeps no cookie of an answer of
\* status 400 or more.
C19_RequestsAreIsolated ==
    /\ CookieSet(jar) \cap FailureCookies = {}
    /\ \A s \in Slots :
          pc[s] # "idle" =>
              /\ \A h \in DOMAIN sink[s] :
                    lower(sink[s][h][1]) = "set-cookie" =>
                        sink[s][h][2] \in OwnSetCookies(s)
              /\ \A c \in DOMAIN calls[s] :
                    /\ \A h \in DOMAIN calls[s][c].headers :
                          lower(calls[s][c].headers[h][1]) = "x-tenant-id" =>
                              calls[s][c].headers[h][2] = tenant_id(req[s].request)
                    /\ CookieSet(calls[s][c].cookies)
                          \subseteq CookieSet(request_cookies(req[s].request))

\* C20 (as claimed): every backend call of every resolver is issued through
\* the shared transport the process created at startup, while that transport
\* is open.
C20_CallsUseSharedTransport ==
    (IsGraph /\ pc \in {"awaiting", "replied", "done"}) =>
        /\ http_client = "open"
        /\ \A c \in DOMAIN calls : calls[c].client = "shared"


\* C21 (as claimed): every backend call of every resolver, of a query, of a
\* mutation or of the auth flow, is issued with timeout=REQUEST_TIMEOUT.
C21_EveryCallHasTheTimeout ==
    (IsGraph /\ pc \in {"awaiting", "replied", "done"}) =>
        \A c \in DOMAIN calls : calls[c].timeout = <<settings.REQUEST_TIMEOUT>>

\* the auth backend answered login or signup with a status other than 200
AuthRefused ==
    /\ IsGraph /\ req.field \in {"login", "signup"} /\ pc = "done"
    /\ reply.kind = "response" /\ reply.status_code # 200

\* C22: when the auth backend answers login or signup with a status other
\* than 200, the resolver raises and the header sink of the gateway response
\* is as get_context made it: none of the Set-Cookie headers of the answer is
\* relayed, however many it carries.
C22_RefusedAuthRelaysNothing ==
    AuthRefused =>
        /\ result.kind = "raise"
        /\ sink = get_context(req.request).response.headers
        /\ get_list(sink, "set-cookie") = <<>>

\* login or signup was refused with an answer that carries two Set-Cookie
\* headers, and the resolver raised
C22_Witness ==
    /\ AuthRefused
    /\ Len(get_list(reply.headers, "set-cookie")) = 2
    /\ result.kind = "raise"

\* C23: whatever the status of the auth backend's answer to the logout call,
\* logout relays the Set-Cookie headers of the answer, in order, and returns
\* status "logged_out"; it raises only when the call fails in the transport.
C23_LogoutRelaysOnEveryStatus ==
    (IsGraph /\ req.field = "logout" /\ pc = "done") =>
        IF reply.kind = "response"
        THEN /\ result = [kind |-> "return",
                          value |-> [t |-> "object", by |-> "LogoutResponse",
                                     status |-> "logged_out"]]
             /\ get_list(sink, "set-cookie") = get_list(reply.headers, "set-cookie")
        ELSE result.kind = "raise"

\* logout was answered 401 with two Set-Cookie headers, relayed both and
\* returned
C23_Witness ==
    /\ IsGraph /\ req.field = "logout" /\ pc = "done"
    /\ reply.kind = "response" /\ reply.status_code = 401
    /\ Len(get_list(reply.headers, "set-cookie")) = 2
    /\ Len(get_list(sink, "set-cookie")) = 2
    /\ result.kind = "return"
====
